---- MODULE Spec2Model ----
(***************************************************************************)
(* Relational Monte Carlo core of apriori.                                 *)
(*                                                                         *)
(*   DialogueSpec  one timeline: run_simulation driving the LangGraph      *)
(*                 dialogue graph (agents/dialogue_graph.py)               *)
(*   EnsembleSpec  RelationalMonteCarlo.run_ensemble (core/monte_carlo.py) *)
(*   WorkflowSpec  AprioriSimulationWorkflow.run with its cancel signal    *)
(*                 (workflows/simulation_workflow.py)                      *)
(*   TrackerSpec   ToMTracker.hidden_thought and _bayesian_update          *)
(*                 (core/tom_tracker.py)                                   *)
(*   ReplaySpec    run_simulation called twice with one seed               *)
(*   HomeostasisSpec   node_homeostasis_check on the states of turns 7, 8  *)
(*   DistributionSpec  p20_homeostasis and p80_homeostasis of a            *)
(*                 RelationalProbabilityDistribution (models/simulation.py) *)
(*   AttributionSpec   collapse_attribution of a distribution              *)
(*   ReportingSpec     analyze_distribution and generate_executive_report  *)
(*                 (core/monte_carlo.py)                                   *)
(*   ClassifierSpec    the risk classifiers of ToMTracker and of the       *)
(*                 collapse detector                                       *)
(*   BeliefStateSpec   ToMTracker.hidden_thought over several targets      *)
(*   DetectorSpec      BeliefCollapseDetector.assess and its projections   *)
(*                 (core/collapse_detector.py)                             *)
(*   VulnerabilitySpec identify_shared_vulnerability in two processes      *)
(*                 (core/event_generator.py)                               *)
(*                                                                         *)
(* Scores (risk, resilience, resilience_delta, thresholds) are integers in *)
(* units of 1/10000, the precision of the code's round(x, 4).              *)
(***************************************************************************)
EXTENDS Integers, Sequences, FiniteSets, TLC

VARIABLES
    \* ---- one timeline (run_simulation) ----
    max_turns,                  \* run_simulation(max_turns=...)
    crisis_turn,                \* run_simulation(crisis_at_turn=...)
    llm_future,                 \* the language model's replies carry a future marker
    llm_empty,                  \* the language model's replies strip to the empty string
    conv_trend,                 \* convergence_trend the scorer reports
    conv_delta,                 \* resilience_delta the scorer reports
    phase,                      \* position of run_simulation
    next_node,                  \* the graph's next node (snapshot.next)
    resuming,                   \* the stream was re-entered with astream(None)
    turn_number,
    conversation_history,
    active_crisis,
    crisis_injected_at_turn,
    collapse_assessments,
    linguistic_convergence_log,
    simulation_complete,
    homeostasis_reached,
    final_resilience_score,
    belief_turns,               \* [a |-> .., b |-> ..]: BeliefState.turn_number of each tracker
    exchange_nodes,             \* nodes run since the current exchange began
    exchange_thoughts,          \* agents whose tracker ran hidden_thought in this exchange
    last_node,                  \* the node that ran last
    result,                     \* the TimelineResult returned, <<>> before
    \* ---- one ensemble (run_ensemble) ----
    n_timelines,
    max_workers,
    has_callback,
    e_pc,
    batch_start,
    tasks,
    semaphore,
    results,
    completed,
    progress_calls,
    severity_range,             \* RelationalMonteCarlo(severity_range=...)
    np_state,                   \* state of numpy's process-wide generator at the start
    py_random,                  \* state of the random module's process-wide generator
    \* ---- one workflow run ----
    n_simulations,
    w_pc,
    w_batch_start,
    all_results,
    _completed,
    _total,
    _cancelled,
    _status,
    published,
    w_error,
    distribution,
    \* ---- one ToMTracker ----
    t_pc,                       \* "ready" between calls; "unit"/"unit_done": one _bayesian_update call
    t_depth,                    \* recursion_depth
    t_turn_number,              \* BeliefState.turn_number
    t_model,                    \* epistemic_models[other_id], <<>> before the first call
    t_outcome,                  \* how the last hidden_thought call ended
    t_likelihood,               \* the likelihood the last call applied, <<>> if none
    t_thoughts,                 \* len(_thought_log)
    bu_in,                      \* arguments of the _bayesian_update call
    bu_out,                     \* its return value, <<>> before
    \* ---- one timeline run twice ----
    rp_seed,                    \* run_simulation(seed=...) of both runs
    rp_clock,                   \* datetime.now
    rp_random,                  \* the random module's process-wide generator
    rp_results,                 \* the TimelineResult of each run, <<>> before
    \* ---- one RelationalProbabilityDistribution ----
    timelines,                  \* its timelines: crisis_severity, reached_homeostasis
    p20,                        \* p20_homeostasis once read, <<>> before
    p80,                        \* p80_homeostasis once read, <<>> before
    collapse_attribution,       \* collapse_attribution once read, <<>> before
    analysis,                   \* outcome of analyze_distribution, <<>> before
    report,                     \* outcome of generate_executive_report, <<>> before
    \* ---- the risk classifiers ----
    scores,                     \* two scores x <= y handed to a classifier
    collapse_threshold,         \* ToMTracker(collapse_threshold=...)
    risk_levels,                \* the levels each classifier gave to x and y, <<>> before
    \* ---- one ToMTracker and the agents it models ----
    agent_id,                   \* ToMTracker.agent_id
    epistemic_models,           \* BeliefState.epistemic_models, keyed by target agent_id
    _thought_log,               \* ToMTracker._thought_log
    bs_turn_number,             \* BeliefState.turn_number
    ht_other,                   \* other_id of the last hidden_thought call
    ht_outcome,                 \* how the last hidden_thought call ended
    \* ---- one BeliefCollapseDetector ----
    _collapse_history,          \* the overall_collapse_risk of each stored assessment
    assessment,                 \* what the last assess call returned, <<>> before
    \* ---- identify_shared_vulnerability in two processes ----
    shadows,                    \* values and attachment_style of shadow_a and shadow_b
    shared_fears,               \* fears in both fear_architectures
    key_order,                  \* iteration order of SHADOW_VALUE_KEYS in each process
    top_axis                    \* the axis each process returned, <<>> before

dlg_vars == <<max_turns, crisis_turn, llm_future, llm_empty, conv_trend, conv_delta, phase,
              next_node, resuming, turn_number, conversation_history, active_crisis,
              crisis_injected_at_turn, collapse_assessments,
              linguistic_convergence_log, simulation_complete, homeostasis_reached,
              final_resilience_score, belief_turns, exchange_nodes,
              exchange_thoughts, last_node, result>>

ens_vars == <<n_timelines, max_workers, has_callback, e_pc, batch_start, tasks,
              semaphore, results, completed, progress_calls, severity_range,
              np_state, py_random>>

wf_vars == <<n_simulations, w_pc, w_batch_start, all_results, _completed, _total,
             _cancelled, _status, published, w_error, distribution>>

trk_vars == <<t_pc, t_depth, t_turn_number, t_model, t_outcome, t_likelihood,
              t_thoughts, bu_in, bu_out>>

rep_vars == <<rp_seed, rp_clock, rp_random, rp_results>>

rpd_vars == <<timelines, p20, p80, collapse_attribution, analysis, report>>

cls_vars == <<scores, collapse_threshold, risk_levels>>

bst_vars == <<agent_id, epistemic_models, _thought_log, bs_turn_number, ht_other,
              ht_outcome>>

det_vars == <<_collapse_history, assessment>>

vul_vars == <<shadows, shared_fears, key_order, top_axis>>

aux_vars == <<bst_vars, det_vars, vul_vars>>

vars == <<dlg_vars, ens_vars, wf_vars, trk_vars, rep_vars, rpd_vars, cls_vars, aux_vars>>

\* what the actions of one part leave alone
not_dlg_vars == <<ens_vars, wf_vars, trk_vars, rep_vars, rpd_vars, cls_vars, aux_vars>>
not_ens_vars == <<dlg_vars, wf_vars, trk_vars, rep_vars, rpd_vars, cls_vars, aux_vars>>
not_wf_vars == <<dlg_vars, ens_vars, trk_vars, rep_vars, rpd_vars, cls_vars, aux_vars>>
not_trk_vars == <<dlg_vars, ens_vars, wf_vars, rep_vars, rpd_vars, cls_vars, aux_vars>>
not_rep_vars == <<dlg_vars, ens_vars, wf_vars, trk_vars, rpd_vars, cls_vars, aux_vars>>
not_rpd_vars == <<dlg_vars, ens_vars, wf_vars, trk_vars, rep_vars, cls_vars, aux_vars>>
not_cls_vars == <<dlg_vars, ens_vars, wf_vars, trk_vars, rep_vars, rpd_vars, aux_vars>>
not_aux_vars == <<dlg_vars, ens_vars, wf_vars, trk_vars, rep_vars, rpd_vars, cls_vars>>
not_bst_vars == <<not_aux_vars, det_vars, vul_vars>>
not_det_vars == <<not_aux_vars, bst_vars, vul_vars>>
not_vul_vars == <<not_aux_vars, bst_vars, det_vars>>

\* ------------------------------------------------------------------ bounds

MaxTurnsBound == 9
MaxCrisisTurn == 4

\* ------------------------------------------------------------ small helpers

None == <<>>
Some(x) == <<x>>
IsNone(o) == o = <<>>

Min(a, b) == IF a <= b THEN a ELSE b
Max(a, b) == IF a >= b THEN a ELSE b

Last(s) == s[Len(s)]

\* s[-n:]
Tail_n(s, n) == IF Len(s) <= n THEN s ELSE SubSeq(s, Len(s) - n + 1, Len(s))

RECURSIVE SumSeq(_)
SumSeq(s) == IF s = <<>> THEN 0 ELSE s[1] + SumSeq(Tail(s))

Unit == 10000

\* round(v, 4) of the rational num/den, in units of 1/10000 (den > 0)
Round4(num, den) == (2 * num + den) \div (2 * den)

\* ------------------------------------------------- dialogue graph: constants

HomeostasisMinTurns == 8
CollapseCheckEvery == 3
AssessmentWindow == 5
HistoryWindow == 5
AntifragileThreshold == 6000
DefaultResilience == 5000
ResilienceDeltaWeightTenths == 3

\* BlackSwanEvent.elasticity_threshold of the pair (one secure agent, mean
\* entropy tolerance 0.5): 0.4 - 0.1*0.5 - 0.05*1
ElasticityThreshold == 3000

Trends == {"accelerating", "stable", "diverging"}
DeltaValues == {1000, 9000}
RiskValues == {1200, 5400, 9000}

ExchangeChain == <<"hidden_thought_a", "generate_response_a", "hidden_thought_b",
                   "generate_response_b", "linguistic_update", "homeostasis_check">>
AncillaryNodes == {"collapse_check", "crisis_injection"}
Nodes == {ExchangeChain[i] : i \in 1..Len(ExchangeChain)} \cup AncillaryNodes

\* BeliefCollapseDetector._classify_risk_level
ClassifyRiskLevel(score) ==
    IF score > 8000 THEN "CRITICAL"
    ELSE IF score > 6000 THEN "HIGH"
    ELSE IF score > 4000 THEN "MODERATE"
    ELSE IF score > 2000 THEN "LOW"
    ELSE "STABLE"

\* ------------------------------------------------------ dialogue graph: router

ShouldContinue_CrisisAfterCollapse(complete, turn, injected) ==
    IF complete THEN "end"
    ELSE IF turn >= max_turns THEN "end"
    ELSE IF turn > 0 /\ turn % CollapseCheckEvery = 0 THEN "check_collapse"
    ELSE IF turn = crisis_turn /\ IsNone(injected) THEN "inject_crisis"
    ELSE "continue"

ShouldContinue_OneTurnLate(complete, turn, injected) ==
    IF complete THEN "end"
    ELSE IF turn > max_turns THEN "end"
    ELSE IF turn = crisis_turn /\ IsNone(injected) THEN "inject_crisis"
    ELSE IF turn > 0 /\ turn % CollapseCheckEvery = 0 THEN "check_collapse"
    ELSE "continue"

\* should_continue(state)
ShouldContinue(complete, turn, injected) ==
    IF complete THEN "end"
    ELSE IF turn >= max_turns THEN "end"
    ELSE IF turn = crisis_turn /\ IsNone(injected) THEN "inject_crisis"
    ELSE IF turn > 0 /\ turn % CollapseCheckEvery = 0 THEN "check_collapse"
    ELSE "continue"

ConditionalTarget_CrisisSkipped(route) ==
    CASE route = "continue" -> "hidden_thought_a"
      [] route = "check_collapse" -> "collapse_check"
      [] route = "inject_crisis" -> "hidden_thought_a"
      [] route = "end" -> "END"

\* add_conditional_edges("homeostasis_check", should_continue, {...})
ConditionalTarget(route) ==
    CASE route = "continue" -> "hidden_thought_a"
      [] route = "check_collapse" -> "collapse_check"
      [] route = "inject_crisis" -> "crisis_injection"
      [] route = "end" -> "END"

LinearEdge_SkipsHiddenThoughtB(n) ==
    CASE n = "hidden_thought_a" -> "generate_response_a"
      [] n = "generate_response_a" -> "generate_response_b"
      [] n = "hidden_thought_b" -> "generate_response_b"
      [] n = "generate_response_b" -> "linguistic_update"
      [] n = "linguistic_update" -> "homeostasis_check"
      [] n = "collapse_check" -> "hidden_thought_a"
      [] n = "crisis_injection" -> "hidden_thought_a"

\* graph.add_edge(n, m)
LinearEdge(n) ==
    CASE n = "hidden_thought_a" -> "generate_response_a"
      [] n = "generate_response_a" -> "hidden_thought_b"
      [] n = "hidden_thought_b" -> "generate_response_b"
      [] n = "generate_response_b" -> "linguistic_update"
      [] n = "linguistic_update" -> "homeostasis_check"
      [] n = "collapse_check" -> "hidden_thought_a"
      [] n = "crisis_injection" -> "hidden_thought_a"

InterruptBefore_Nothing == {}

\* graph.compile(checkpointer=memory, interrupt_before=["crisis_injection"])
InterruptBefore == {"crisis_injection"}

\* ------------------------------------------------ dialogue graph: homeostasis

\* node_homeostasis_check: the five criteria
Homeostasis(assessments, conv_log, history, turn, crisis) ==
    LET recent_a == Tail_n(assessments, AssessmentWindow)
        no_critical == \A i \in 1..Len(recent_a) : recent_a[i].risk_level # "CRITICAL"
        trend == IF conv_log = <<>> THEN "stable" ELSE Last(conv_log).convergence_trend
        trend_ok == trend \in {"stable", "accelerating"}
        last5 == Tail_n(history, HistoryWindow)
        has_future == \E i \in 1..Len(last5) :
                          last5[i].role # "SYSTEM" /\ last5[i].future
        latest_resilience == IF conv_log = <<>> THEN DefaultResilience
                             ELSE Last(conv_log).resilience_delta
        crisis_ok == IF IsNone(crisis) THEN TRUE
                     ELSE latest_resilience > crisis[1].elasticity_threshold
    IN  no_critical /\ trend_ok /\ has_future /\ crisis_ok /\ turn >= HomeostasisMinTurns

\* node_homeostasis_check: final_resilience_score
Resilience(assessments, conv_log) ==
    LET recent_a == Tail_n(assessments, AssessmentWindow)
        n == IF recent_a = <<>> THEN 1 ELSE Len(recent_a)
        risks == [i \in 1..Len(recent_a) |-> recent_a[i].overall_collapse_risk]
        \* 1 - avg_risk, or 0.5 without assessments, as a fraction over n
        base_num == IF recent_a = <<>> THEN DefaultResilience ELSE Unit * n - SumSeq(risks)
        delta == IF conv_log = <<>> THEN 0 ELSE Last(conv_log).resilience_delta
        \* (base + 0.3 * delta) over the denominator 10 * n
        num == 10 * base_num + ResilienceDeltaWeightTenths * delta * n
        capped == IF conv_log = <<>> THEN num ELSE Min(Unit * 10 * n, num)
    IN  Round4(capped, 10 * n)

\* run_simulation: antifragile
Antifragile(final_resilience, injected, homeostasis) ==
    final_resilience > AntifragileThreshold /\ ~IsNone(injected)

\* ------------------------------------------------- dialogue graph: the nodes

Streaming(n) == phase = "streaming" /\ next_node = n

\* a node ran: bookkeeping of the exchange's order
Ran(n) ==
    /\ last_node' = n
    /\ exchange_nodes' = IF n = "hidden_thought_a" THEN <<n>>
                         ELSE Append(exchange_nodes, n)
    /\ resuming' = FALSE

DlgParams == <<max_turns, crisis_turn, llm_future, llm_empty, conv_trend, conv_delta>>

\* new_turn = {"role": ..., "content": response.content.strip(), ...}
NewTurn(role) == [role |-> role, future |-> llm_future, empty |-> llm_empty]

\* last_x = ""; for turn in reversed(history): if role == x: last_x = content
LastContent(history, role) ==
    LET at == {i \in 1..Len(history) : history[i].role = role}
    IN  IF at = {} THEN ""
        ELSE LET last == history[CHOOSE i \in at : \A j \in at : j <= i]
             IN  IF last.empty THEN "" ELSE "utterance"

NodeHiddenThoughtA_RecordsPlaceholder ==
    /\ Streaming("hidden_thought_a")
    /\ belief_turns' = [belief_turns EXCEPT !.a = @ + 1]
    /\ exchange_thoughts' = {"a"}
    /\ conversation_history' =
           IF LastContent(conversation_history, "B") = ""
           THEN Append(conversation_history, NewTurn("SYSTEM"))
           ELSE conversation_history
    /\ next_node' = LinearEdge("hidden_thought_a")
    /\ Ran("hidden_thought_a")
    /\ UNCHANGED <<DlgParams, phase, turn_number, active_crisis,
                   crisis_injected_at_turn, collapse_assessments,
                   linguistic_convergence_log, simulation_complete,
                   homeostasis_reached, final_resilience_score, result>>
    /\ UNCHANGED not_dlg_vars

\* node_hidden_thought_a: tom_a.hidden_thought on B's last utterance or on the
\* placeholder "(conversation starting)", then belief_state_a only
NodeHiddenThoughtA ==
    /\ Streaming("hidden_thought_a")
    /\ belief_turns' = [belief_turns EXCEPT !.a = @ + 1]
    /\ exchange_thoughts' = {"a"}
    /\ next_node' = LinearEdge("hidden_thought_a")
    /\ Ran("hidden_thought_a")
    /\ UNCHANGED <<DlgParams, phase, turn_number, conversation_history, active_crisis,
                   crisis_injected_at_turn, collapse_assessments,
                   linguistic_convergence_log, simulation_complete,
                   homeostasis_reached, final_resilience_score, result>>
    /\ UNCHANGED not_dlg_vars

\* node_generate_response_a: appends A's turn
NodeGenerateResponseA ==
    /\ Streaming("generate_response_a")
    /\ conversation_history' =
           Append(conversation_history, NewTurn("A"))
    /\ next_node' = LinearEdge("generate_response_a")
    /\ Ran("generate_response_a")
    /\ UNCHANGED <<DlgParams, phase, turn_number, active_crisis,
                   crisis_injected_at_turn, collapse_assessments,
                   linguistic_convergence_log, simulation_complete,
                   homeostasis_reached, final_resilience_score, belief_turns,
                   exchange_thoughts, result>>
    /\ UNCHANGED not_dlg_vars

\* node_hidden_thought_b: tom_b.hidden_thought on A's last utterance, called
\* only when that utterance is not the empty string
NodeHiddenThoughtB ==
    /\ Streaming("hidden_thought_b")
    /\ LET last_a == LastContent(conversation_history, "A")
       IN  IF last_a # ""                      \* if last_a:
           THEN /\ belief_turns' = [belief_turns EXCEPT !.b = @ + 1]
                /\ exchange_thoughts' = exchange_thoughts \cup {"b"}
           ELSE UNCHANGED <<belief_turns, exchange_thoughts>>
    /\ next_node' = LinearEdge("hidden_thought_b")
    /\ Ran("hidden_thought_b")
    /\ UNCHANGED <<DlgParams, phase, turn_number, conversation_history, active_crisis,
                   crisis_injected_at_turn, collapse_assessments,
                   linguistic_convergence_log, simulation_complete,
                   homeostasis_reached, final_resilience_score, result>>
    /\ UNCHANGED not_dlg_vars

\* node_generate_response_b: appends B's turn and increments turn_number
NodeGenerateResponseB ==
    /\ Streaming("generate_response_b")
    /\ conversation_history' =
           Append(conversation_history, NewTurn("B"))
    /\ turn_number' = turn_number + 1
    /\ next_node' = LinearEdge("generate_response_b")
    /\ Ran("generate_response_b")
    /\ UNCHANGED <<DlgParams, phase, active_crisis,
                   crisis_injected_at_turn, collapse_assessments,
                   linguistic_convergence_log, simulation_complete,
                   homeostasis_reached, final_resilience_score, belief_turns,
                   exchange_thoughts, result>>
    /\ UNCHANGED not_dlg_vars

NodeLinguisticUpdate_KeepsLatestOnly ==
    /\ Streaming("linguistic_update")
    /\ linguistic_convergence_log' =
           <<[turn |-> turn_number, convergence_trend |-> conv_trend,
              resilience_delta |-> conv_delta]>>
    /\ next_node' = LinearEdge("linguistic_update")
    /\ Ran("linguistic_update")
    /\ UNCHANGED <<DlgParams, phase, turn_number, conversation_history, active_crisis,
                   crisis_injected_at_turn, collapse_assessments, simulation_complete,
                   homeostasis_reached, final_resilience_score, belief_turns,
                   exchange_thoughts, result>>
    /\ UNCHANGED not_dlg_vars

\* node_linguistic_update: one convergence record tagged with the turn
NodeLinguisticUpdate ==
    /\ Streaming("linguistic_update")
    /\ linguistic_convergence_log' =
           Append(linguistic_convergence_log,
                  [turn |-> turn_number, convergence_trend |-> conv_trend,
                   resilience_delta |-> conv_delta])
    /\ next_node' = LinearEdge("linguistic_update")
    /\ Ran("linguistic_update")
    /\ UNCHANGED <<DlgParams, phase, turn_number, conversation_history, active_crisis,
                   crisis_injected_at_turn, collapse_assessments, simulation_complete,
                   homeostasis_reached, final_resilience_score, belief_turns,
                   exchange_thoughts, result>>
    /\ UNCHANGED not_dlg_vars

\* node_homeostasis_check, then the conditional edge should_continue
NodeHomeostasisCheck ==
    /\ Streaming("homeostasis_check")
    /\ homeostasis_reached' =
           Homeostasis(collapse_assessments, linguistic_convergence_log,
                       conversation_history, turn_number, active_crisis)
    /\ final_resilience_score' = Resilience(collapse_assessments, linguistic_convergence_log)
    /\ LET target == ConditionalTarget(
                         ShouldContinue(simulation_complete, turn_number,
                                        crisis_injected_at_turn))
       IN  /\ next_node' = target
           /\ phase' = IF target = "END" THEN "ended" ELSE phase
    /\ Ran("homeostasis_check")
    /\ UNCHANGED <<DlgParams, turn_number, conversation_history, active_crisis,
                   crisis_injected_at_turn, collapse_assessments,
                   linguistic_convergence_log, simulation_complete, belief_turns,
                   exchange_thoughts, result>>
    /\ UNCHANGED not_dlg_vars

\* node_collapse_check: one assessment tagged with the turn
NodeCollapseCheck ==
    /\ Streaming("collapse_check")
    /\ \E risk \in RiskValues :
           collapse_assessments' =
               Append(collapse_assessments,
                      [turn |-> turn_number, overall_collapse_risk |-> risk,
                       risk_level |-> ClassifyRiskLevel(risk)])
    /\ next_node' = LinearEdge("collapse_check")
    /\ Ran("collapse_check")
    /\ UNCHANGED <<DlgParams, phase, turn_number, conversation_history, active_crisis,
                   crisis_injected_at_turn, linguistic_convergence_log,
                   simulation_complete, homeostasis_reached, final_resilience_score,
                   belief_turns, exchange_thoughts, result>>
    /\ UNCHANGED not_dlg_vars

\* the stream stops before a node named in interrupt_before (unless it is being
\* resumed at that node); snapshot.next keeps the node
Interrupt ==
    /\ phase = "streaming"
    /\ next_node \in InterruptBefore
    /\ ~resuming
    /\ phase' = "interrupted"
    /\ UNCHANGED <<DlgParams, next_node, resuming, turn_number, conversation_history,
                   active_crisis, crisis_injected_at_turn, collapse_assessments,
                   linguistic_convergence_log, simulation_complete, homeostasis_reached,
                   final_resilience_score, belief_turns,
                   exchange_thoughts, exchange_nodes, last_node,
                   result>>
    /\ UNCHANGED not_dlg_vars

\* run_simulation: while snapshot.next: graph.astream(None, config)
Resume ==
    /\ phase = "interrupted"
    /\ phase' = "streaming"
    /\ resuming' = TRUE
    /\ UNCHANGED <<DlgParams, next_node, turn_number, conversation_history,
                   active_crisis, crisis_injected_at_turn, collapse_assessments,
                   linguistic_convergence_log, simulation_complete, homeostasis_reached,
                   final_resilience_score, belief_turns,
                   exchange_thoughts, exchange_nodes, last_node,
                   result>>
    /\ UNCHANGED not_dlg_vars

NodeCrisisInjection_NoSystemTurn ==
    /\ Streaming("crisis_injection")
    /\ next_node \in InterruptBefore => resuming
    /\ active_crisis' = Some([elasticity_threshold |-> ElasticityThreshold])
    /\ crisis_injected_at_turn' = Some(turn_number)
    /\ next_node' = LinearEdge("crisis_injection")
    /\ Ran("crisis_injection")
    /\ UNCHANGED <<DlgParams, phase, turn_number, conversation_history,
                   collapse_assessments,
                   linguistic_convergence_log, simulation_complete, homeostasis_reached,
                   final_resilience_score, belief_turns, exchange_thoughts, result>>
    /\ UNCHANGED not_dlg_vars

\* node_crisis_injection: the pre-generated crisis enters as one SYSTEM turn
NodeCrisisInjection ==
    /\ Streaming("crisis_injection")
    /\ next_node \in InterruptBefore => resuming
    /\ conversation_history' =
           Append(conversation_history, [role |-> "SYSTEM", future |-> FALSE, empty |-> FALSE])
    /\ active_crisis' = Some([elasticity_threshold |-> ElasticityThreshold])
    /\ crisis_injected_at_turn' = Some(turn_number)
    /\ next_node' = LinearEdge("crisis_injection")
    /\ Ran("crisis_injection")
    /\ UNCHANGED <<DlgParams, phase, turn_number, collapse_assessments,
                   linguistic_convergence_log, simulation_complete, homeostasis_reached,
                   final_resilience_score, belief_turns, exchange_thoughts, result>>
    /\ UNCHANGED not_dlg_vars

\* run_simulation: the TimelineResult built from the final state
TimelineResultOf ==
    [reached_homeostasis |-> homeostasis_reached,
     final_resilience_score |-> final_resilience_score,
     antifragile |-> Antifragile(final_resilience_score, crisis_injected_at_turn,
                                 homeostasis_reached),
     turns_total |-> turn_number,
     crisis_injected |-> ~IsNone(crisis_injected_at_turn)]

ReturnResult ==
    /\ phase = "ended"
    /\ phase' = "returned"
    /\ result' = Some(TimelineResultOf)
    /\ UNCHANGED <<DlgParams, next_node, resuming, turn_number, conversation_history,
                   active_crisis, crisis_injected_at_turn, collapse_assessments,
                   linguistic_convergence_log, simulation_complete, homeostasis_reached,
                   final_resilience_score, belief_turns,
                   exchange_thoughts, exchange_nodes, last_node>>
    /\ UNCHANGED not_dlg_vars

\* a node's language-model call raises: the exception leaves run_simulation and
\* the timeline's state is dropped
NodeRaises ==
    /\ phase = "streaming"
    /\ next_node \in Nodes
    /\ next_node \in InterruptBefore => resuming
    /\ phase' = "raised"
    /\ next_node' = "END"
    /\ resuming' = FALSE
    /\ turn_number' = 0
    /\ conversation_history' = <<>>
    /\ active_crisis' = None
    /\ crisis_injected_at_turn' = None
    /\ collapse_assessments' = <<>>
    /\ linguistic_convergence_log' = <<>>
    /\ homeostasis_reached' = FALSE
    /\ final_resilience_score' = 0
    /\ belief_turns' = [a |-> 0, b |-> 0]
    /\ exchange_nodes' = <<>>
    /\ exchange_thoughts' = {}
    /\ last_node' = "none"
    /\ UNCHANGED <<DlgParams, simulation_complete, result>>
    /\ UNCHANGED not_dlg_vars

\* run_simulation: initial_state, and the parameters of the timeline. The
\* language model and the scorer answer the same way throughout one timeline
\* (llm_future, conv_trend, conv_delta), as the repository's mocks do; the
\* collapse detector's risk is drawn anew at every assessment.
DlgInit ==
    /\ max_turns \in 0..MaxTurnsBound
    /\ crisis_turn \in 0..MaxCrisisTurn
    /\ llm_future \in BOOLEAN
    /\ llm_empty \in BOOLEAN
    /\ llm_empty => ~llm_future
    /\ conv_trend \in Trends
    /\ conv_delta \in DeltaValues
    /\ phase = "streaming"
    /\ next_node = "hidden_thought_a"
    /\ resuming = FALSE
    /\ turn_number = 0
    /\ conversation_history = <<>>
    /\ active_crisis = None
    /\ crisis_injected_at_turn = None
    /\ collapse_assessments = <<>>
    /\ linguistic_convergence_log = <<>>
    /\ simulation_complete = FALSE
    /\ homeostasis_reached = FALSE
    /\ final_resilience_score = 0
    /\ belief_turns = [a |-> 0, b |-> 0]
    /\ exchange_nodes = <<>>
    /\ exchange_thoughts = {}
    /\ last_node = "none"
    /\ result = None

DlgIdle ==
    /\ max_turns = 0
    /\ crisis_turn = 0
    /\ llm_future = FALSE
    /\ llm_empty = FALSE
    /\ conv_trend = "stable"
    /\ conv_delta = 0
    /\ phase = "idle"
    /\ next_node = "END"
    /\ resuming = FALSE
    /\ turn_number = 0
    /\ conversation_history = <<>>
    /\ active_crisis = None
    /\ crisis_injected_at_turn = None
    /\ collapse_assessments = <<>>
    /\ linguistic_convergence_log = <<>>
    /\ simulation_complete = FALSE
    /\ homeostasis_reached = FALSE
    /\ final_resilience_score = 0
    /\ belief_turns = [a |-> 0, b |-> 0]
    /\ exchange_nodes = <<>>
    /\ exchange_thoughts = {}
    /\ last_node = "none"
    /\ result = None

DlgNext ==
    \/ NodeHiddenThoughtA
    \/ NodeGenerateResponseA
    \/ NodeHiddenThoughtB
    \/ NodeGenerateResponseB
    \/ NodeLinguisticUpdate
    \/ NodeHomeostasisCheck
    \/ NodeCollapseCheck
    \/ Interrupt
    \/ Resume
    \/ NodeCrisisInjection
    \/ ReturnResult
    \/ NodeRaises

\* ------------------------------------- node_homeostasis_check on late states
\* The states in which homeostasis_check runs at turn 7 or 8 of a timeline whose
\* language model answers differently from turn to turn: the last six agent
\* turns carry a future marker or not, independently.

HomTurns == {HomeostasisMinTurns - 1, HomeostasisMinTurns}
HomCrisisTurns == {0, 5, 6, 7}
HomFlagged == 6
HomFlags == [1..HomFlagged -> BOOLEAN]

\* the j-th agent turn of a timeline checked at turn k
HomAgentTurn(j, k, flags) ==
    [role |-> IF j % 2 = 1 THEN "A" ELSE "B",
     future |-> j > 2 * k - HomFlagged /\ flags[j - (2 * k - HomFlagged)],
     empty |-> FALSE]

\* conversation_history after n exchanges: the agents' turns, and the SYSTEM
\* turn where crisis_injection ran (after the exchange of turn c)
HomHistory(n, c, k, flags) ==
    LET injected == 1 <= c /\ c < n
        len == 2 * n + (IF injected THEN 1 ELSE 0)
    IN  [i \in 1..len |->
            IF injected /\ i = 2 * c + 1
            THEN [role |-> "SYSTEM", future |-> FALSE, empty |-> FALSE]
            ELSE HomAgentTurn(IF injected /\ i > 2 * c THEN i - 1 ELSE i, k, flags)]

\* collapse_assessments when the check of turn n runs: collapse_check ran
\* after the checks of turns 3 and 6, unless the crisis was injected there
HomAssessments(n, c, risks) ==
    LET at(t, r) == IF t < n /\ t # c
                    THEN <<[turn |-> t, overall_collapse_risk |-> r,
                            risk_level |-> ClassifyRiskLevel(r)]>>
                    ELSE <<>>
    IN  at(CollapseCheckEvery, risks[1]) \o at(2 * CollapseCheckEvery, risks[2])

\* linguistic_convergence_log after n exchanges
HomConvLog(n) ==
    [t \in 1..n |-> [turn |-> t, convergence_trend |-> conv_trend,
                     resilience_delta |-> conv_delta]]

HomCrisis(n, c) ==
    IF 1 <= c /\ c < n THEN Some([elasticity_threshold |-> ElasticityThreshold])
    ELSE None

\* resilience_delta is 0.3 * semantic + ... with semantic a cosine similarity
\* in [-1, 1]: at least -0.3; overall_collapse_risk is clamped to [0, 1]
HomDeltaValues == DeltaValues \cup {-3000}
HomRiskValues == RiskValues \cup {9500}

HomInit ==
    /\ conv_trend \in Trends
    /\ conv_delta \in HomDeltaValues
    /\ llm_future = FALSE
    /\ llm_empty = FALSE
    /\ crisis_turn \in HomCrisisTurns
    /\ simulation_complete = FALSE
    /\ resuming = FALSE
    /\ result = None
    /\ phase = "streaming"
    /\ next_node = "homeostasis_check"
    /\ last_node = "linguistic_update"
    /\ exchange_nodes = SubSeq(ExchangeChain, 1, Len(ExchangeChain) - 1)
    /\ exchange_thoughts = {"a", "b"}
    /\ \E k \in HomTurns, flags \in HomFlags, risks \in HomRiskValues \X HomRiskValues :
           /\ turn_number = k
           /\ max_turns \in {k, k + 1}
           /\ belief_turns = [a |-> k, b |-> k]
           /\ conversation_history = HomHistory(k, crisis_turn, k, flags)
           /\ collapse_assessments = HomAssessments(k, crisis_turn, risks)
           /\ linguistic_convergence_log = HomConvLog(k)
           /\ active_crisis = HomCrisis(k, crisis_turn)
           /\ crisis_injected_at_turn =
                  IF IsNone(HomCrisis(k, crisis_turn)) THEN None ELSE Some(crisis_turn)
           \* what the check of turn k - 1 left
           /\ homeostasis_reached =
                  Homeostasis(HomAssessments(k - 1, crisis_turn, risks), HomConvLog(k - 1),
                              HomHistory(k - 1, crisis_turn, k, flags), k - 1,
                              HomCrisis(k - 1, crisis_turn))
           /\ final_resilience_score =
                  Resilience(HomAssessments(k - 1, crisis_turn, risks), HomConvLog(k - 1))

HomNext == NodeHomeostasisCheck

\* ------------------------------------------------------------ run_ensemble

MaxTimelines == 4
MaxWorkersBound == 3

PlaceholderSeverity == 0
PlaceholderTurns == 0

self_max_workers_OffByOne == max_workers + 1

\* RelationalMonteCarlo.__init__: self._max_workers
self_max_workers == max_workers

\* _generate_parameter_sets: seed = i + 1 for i in range(n_timelines)
Seeds == 1..n_timelines

EnsParams == <<n_timelines, max_workers, has_callback, severity_range, np_state>>

SeverityRanges == {<<500, 9500>>, <<3000, 6000>>}
NpStates == {0, 1}

\* (np.random.pareto(1.5) + 1) / 10 at the i-th draw of numpy's process-wide
\* generator, which nothing seeds: a value of at least 0.1 that depends on
\* the generator's state at the start and on the number of draws before
NpParetoRaw(state, i) == 1000 + 2600 * state + 1100 * (i - 1)

\* np.clip(raw, severity_range[0], severity_range[1])
Clip(raw, range) == Max(range[1], Min(range[2], raw))

\* _generate_parameter_sets: the severity of parameter set i
ParamSeverity(i) == Clip(NpParetoRaw(np_state, i), severity_range)

\* the random module before anything seeded it
UnseededRandom == [seed |-> 0, draws |-> 0]

\* random.seed(seed)
SeedRandom(seed) == [seed |-> seed, draws |-> 0]

\* (random.paretovariate(alpha) - 1.0) / 4.0 * min(vulnerability_score, 1.5):
\* the generator is deterministic, its output depends on the seed and on the
\* number of draws since seeding, and differs from one of these to the next
SampleRaw(rng) == 1700 * rng.seed + 450 * rng.draws + 300

SampleSeverityMin == 500
SampleSeverityMax == 9800

\* _sample_severity: max(0.05, min(0.98, scaled))
SampleSeverity(rng) == Max(SampleSeverityMin, Min(SampleSeverityMax, SampleRaw(rng)))

GenerateBlackSwan_NoReseed(seed, rng) ==
    [severity |-> SampleSeverity(rng), rng |-> [rng EXCEPT !.draws = @ + 1]]

\* generate_black_swan(shadow_a, shadow_b, seed=seed) up to its first await:
\* random.seed(seed), then _sample_severity; severity_override is None
GenerateBlackSwan(seed, rng) ==
    LET seeded == SeedRandom(seed)
    IN  [severity |-> SampleSeverity(seeded), rng |-> [seeded EXCEPT !.draws = @ + 1]]

\* batch = param_sets[batch_start : batch_start + batch_size]
Batch == {i \in Seeds : batch_start < i /\ i <= batch_start + self_max_workers}

MakeFailedTimeline_KeepsSeverity(seed) ==
    [seed |-> seed, crisis_severity |-> 2000, reached_homeostasis |-> FALSE,
     antifragile |-> FALSE, turns_total |-> PlaceholderTurns]

\* _make_failed_timeline(pair_id, seed)
MakeFailedTimeline(seed) ==
    [seed |-> seed, crisis_severity |-> PlaceholderSeverity,
     reached_homeostasis |-> FALSE, antifragile |-> FALSE,
     turns_total |-> PlaceholderTurns]

\* a TimelineResult run_simulation returns for a timeline that completed
CompletedTimeline(seed) ==
    [seed |-> seed, crisis_severity |-> tasks[seed].crisis_severity,
     reached_homeostasis |-> TRUE, antifragile |-> TRUE, turns_total |-> 9]

NoResult == [seed |-> 0, crisis_severity |-> 0, reached_homeostasis |-> FALSE,
             antifragile |-> FALSE, turns_total |-> 0]

Running == {i \in Seeds : tasks[i].st = "running"}

\* tasks = [_run_with_sem(p) for p in batch]; asyncio.gather(*tasks, ...)
StartBatch ==
    /\ e_pc = "loop"
    /\ batch_start < n_timelines
    /\ tasks' = [i \in Seeds |-> IF i \in Batch
                                 THEN [st |-> "waiting", res |-> NoResult,
                                       crisis_severity |-> 0]
                                 ELSE tasks[i]]
    /\ e_pc' = "gather"
    /\ UNCHANGED <<EnsParams, py_random, batch_start, semaphore,
                   results, completed, progress_calls>>
    /\ UNCHANGED not_ens_vars

\* async with semaphore: acquire; the task then runs to its first suspension,
\* the narrative call inside generate_black_swan
Acquire(i) ==
    /\ e_pc = "gather"
    /\ tasks[i].st = "waiting"
    /\ semaphore > 0
    /\ semaphore' = semaphore - 1
    /\ LET crisis == GenerateBlackSwan(i, py_random)
       IN  /\ tasks' = [tasks EXCEPT ![i].st = "running",
                                     ![i].crisis_severity = crisis.severity]
           /\ py_random' = crisis.rng
    /\ UNCHANGED <<EnsParams, e_pc, batch_start,
                   results, completed, progress_calls>>
    /\ UNCHANGED not_ens_vars

\* _run_single_timeline returns run_simulation's result; the semaphore is released
TimelineCompletes(i) ==
    /\ e_pc = "gather"
    /\ tasks[i].st = "running"
    /\ semaphore' = semaphore + 1
    /\ tasks' = [tasks EXCEPT ![i].st = "returned", ![i].res = CompletedTimeline(i)]
    /\ UNCHANGED <<EnsParams, py_random, e_pc, batch_start,
                   results, completed, progress_calls>>
    /\ UNCHANGED not_ens_vars

\* _run_single_timeline: except Exception -> _make_failed_timeline(pair_id, seed)
TimelineFailsCaught(i) ==
    /\ e_pc = "gather"
    /\ tasks[i].st = "running"
    /\ semaphore' = semaphore + 1
    /\ tasks' = [tasks EXCEPT ![i].st = "caught", ![i].res = MakeFailedTimeline(i)]
    /\ UNCHANGED <<EnsParams, py_random, e_pc, batch_start,
                   results, completed, progress_calls>>
    /\ UNCHANGED not_ens_vars

\* an exception leaves the task (raised outside _run_single_timeline's try, in
\* the tracing wrapper around it); gather(return_exceptions=True) returns it
TimelineFailsEscaped(i) ==
    /\ e_pc = "gather"
    /\ tasks[i].st = "running"
    /\ semaphore' = semaphore + 1
    /\ tasks' = [tasks EXCEPT ![i].st = "escaped", ![i].res = NoResult]
    /\ UNCHANGED <<EnsParams, py_random, e_pc, batch_start,
                   results, completed, progress_calls>>
    /\ UNCHANGED not_ens_vars

\* the smallest seed of the batch: batch[0]["seed"]
BatchFirstSeed == batch_start + 1

\* for r in batch_results: placeholder for an exception, else r
RECURSIVE BatchResults(_, _)
BatchResults(i, last) ==
    IF i > last THEN <<>>
    ELSE <<IF tasks[i].st = "escaped" THEN MakeFailedTimeline(BatchFirstSeed)
           ELSE tasks[i].res>> \o BatchResults(i + 1, last)

BatchDone == \A i \in Batch : tasks[i].st \in {"returned", "caught", "escaped"}

\* progress_callback(min(completed, self._n_timelines), self._n_timelines)
ProgressCall_BatchOnly(done) ==
    [completed |-> Min(Cardinality(Batch), n_timelines), total |-> n_timelines]

ProgressCall(done) == [completed |-> Min(done, n_timelines), total |-> n_timelines]

\* after gather: results, completed += len(batch), the progress callback
CollectBatch ==
    /\ e_pc = "gather"
    /\ BatchDone
    /\ results' = results \o BatchResults(batch_start + 1,
                                          Min(batch_start + self_max_workers, n_timelines))
    /\ completed' = completed + Cardinality(Batch)
    /\ \/ /\ has_callback
          /\ progress_calls' = Append(progress_calls, ProgressCall(completed'))
          /\ e_pc' \in {"loop", "raised"}         \* the callback returns or raises
       \/ /\ ~has_callback
          /\ progress_calls' = progress_calls
          /\ e_pc' = "loop"
    /\ batch_start' = batch_start + self_max_workers
    /\ UNCHANGED <<EnsParams, py_random, tasks, semaphore>>
    /\ UNCHANGED not_ens_vars

\* return RelationalProbabilityDistribution(n_simulations=N, timelines=results)
ReturnDistribution ==
    /\ e_pc = "loop"
    /\ batch_start >= n_timelines
    /\ e_pc' = "done"
    /\ UNCHANGED <<EnsParams, py_random, batch_start, tasks,
                   semaphore, results, completed, progress_calls>>
    /\ UNCHANGED not_ens_vars

EnsInit ==
    /\ n_timelines \in 1..MaxTimelines
    /\ max_workers \in 1..MaxWorkersBound
    /\ has_callback \in BOOLEAN
    /\ e_pc = "loop"
    /\ batch_start = 0
    /\ severity_range \in SeverityRanges
    /\ np_state \in NpStates
    /\ py_random = UnseededRandom
    /\ tasks = [i \in Seeds |-> [st |-> "unscheduled", res |-> NoResult,
                                 crisis_severity |-> 0]]
    /\ semaphore = self_max_workers
    /\ results = <<>>
    /\ completed = 0
    /\ progress_calls = <<>>

EnsIdle ==
    /\ n_timelines = 0
    /\ max_workers = 0
    /\ has_callback = FALSE
    /\ severity_range = <<0, 0>>
    /\ np_state = 0
    /\ py_random = [seed |-> 0, draws |-> 0]
    /\ e_pc = "idle"
    /\ batch_start = 0
    /\ tasks = <<>>
    /\ semaphore = 0
    /\ results = <<>>
    /\ completed = 0
    /\ progress_calls = <<>>

EnsNext ==
    \/ StartBatch
    \/ \E i \in Seeds : Acquire(i)
    \/ \E i \in Seeds : TimelineCompletes(i)
    \/ \E i \in Seeds : TimelineFailsCaught(i)
    \/ \E i \in Seeds : TimelineFailsEscaped(i)
    \/ CollectBatch
    \/ ReturnDistribution

\* ---------------------------------------------- AprioriSimulationWorkflow.run

MaxSimulations == 21
BATCH_SIZE == 10

\* ProgressUpdate(pair_id, completed, total, status)
ProgressUpdate(done, total, status) ==
    [completed |-> done, total |-> total, status |-> status]

\* all_seeds[batch_start:batch_end]
BatchSeeds(start) ==
    [k \in 1..(Min(start + BATCH_SIZE, n_simulations) - start) |-> start + k]

\* RelationalProbabilityDistribution.n_simulations: Field(..., ge=1)
DistributionValid(n) == n >= 1

\* after the loop: the distribution is validated, then store_results_activity
\* is awaited; a ValidationError leaves run()
Aggregate ==
    IF DistributionValid(Len(all_results))
    THEN /\ distribution' = Some([n_simulations |-> Len(all_results),
                                  timelines |-> all_results])
         /\ w_pc' = "store"
         /\ w_error' = w_error
    ELSE /\ distribution' = distribution
         /\ w_pc' = "raised"
         /\ w_error' = "validation"

\* run(): the assignments before the loop
WfRun ==
    /\ w_pc = "start"
    /\ _total' = n_simulations
    /\ _status' = "running"
    /\ w_batch_start' = 0
    /\ w_pc' = "loop"
    /\ UNCHANGED <<n_simulations, all_results, _completed, _cancelled, published,
                   w_error, distribution>>
    /\ UNCHANGED not_wf_vars

\* loop head, not cancelled: execute_activity(run_timeline_batch_activity)
WfStartBatch ==
    /\ w_pc = "loop"
    /\ w_batch_start < n_simulations
    /\ ~_cancelled
    /\ w_pc' = "batch"
    /\ UNCHANGED <<n_simulations, w_batch_start, all_results, _completed, _total,
                   _cancelled, _status, published, w_error, distribution>>
    /\ UNCHANGED not_wf_vars

\* loop head, cancelled: status "cancelled", break, aggregate
WfLoopCancelled ==
    /\ w_pc = "loop"
    /\ w_batch_start < n_simulations
    /\ _cancelled
    /\ _status' = "cancelled"
    /\ Aggregate
    /\ UNCHANGED <<n_simulations, w_batch_start, all_results, _completed, _total,
                   _cancelled, published>>
    /\ UNCHANGED not_wf_vars

\* the range is exhausted: aggregate
WfLoopExhausted ==
    /\ w_pc = "loop"
    /\ w_batch_start >= n_simulations
    /\ Aggregate
    /\ UNCHANGED <<n_simulations, w_batch_start, all_results, _completed, _total,
                   _cancelled, _status, published>>
    /\ UNCHANGED not_wf_vars

\* the batch activity returns: extend, _completed, then the progress activity
\* is started with status=self._status
WfBatchDone ==
    /\ w_pc = "batch"
    /\ all_results' = all_results \o BatchSeeds(w_batch_start)
    /\ _completed' = Len(all_results')
    /\ published' = Append(published, ProgressUpdate(_completed', _total, _status))
    /\ w_pc' = "notify"
    /\ UNCHANGED <<n_simulations, w_batch_start, _total, _cancelled, _status,
                   w_error, distribution>>
    /\ UNCHANGED not_wf_vars

\* notify_progress_activity returns: next iteration
WfNotifyDone ==
    /\ w_pc = "notify"
    /\ w_batch_start' = w_batch_start + BATCH_SIZE
    /\ w_pc' = "loop"
    /\ UNCHANGED <<n_simulations, all_results, _completed, _total, _cancelled,
                   _status, published, w_error, distribution>>
    /\ UNCHANGED not_wf_vars

\* self._status = "completed"; ProgressUpdate(..., status="completed")
FinalStatus == "completed"

\* store_results_activity returns: final status and final progress notification
WfStoreDone ==
    /\ w_pc = "store"
    /\ _status' = FinalStatus
    /\ published' = Append(published, ProgressUpdate(_completed, _total, FinalStatus))
    /\ w_pc' = "final_notify"
    /\ UNCHANGED <<n_simulations, w_batch_start, all_results, _completed, _total,
                   _cancelled, w_error, distribution>>
    /\ UNCHANGED not_wf_vars

\* the final notification returns: return result_key
WfReturn ==
    /\ w_pc = "final_notify"
    /\ w_pc' = "done"
    /\ UNCHANGED <<n_simulations, w_batch_start, all_results, _completed, _total,
                   _cancelled, _status, published, w_error, distribution>>
    /\ UNCHANGED not_wf_vars

\* an awaited activity fails for good (timeout, retries exhausted):
\* execute_activity raises and run() fails
WfActivityFails ==
    /\ w_pc \in {"batch", "notify", "store", "final_notify"}
    /\ w_pc' = "raised"
    /\ w_error' = "activity"
    /\ UNCHANGED <<n_simulations, w_batch_start, all_results, _completed, _total,
                   _cancelled, _status, published, distribution>>
    /\ UNCHANGED not_wf_vars

\* the points at which the workflow is not running its own code: before run()
\* starts and at each await
AtAwait == w_pc \in {"start", "batch", "notify", "store", "final_notify"}

\* cancel_simulation signal handler
CancelSimulation ==
    /\ AtAwait
    /\ _cancelled' = TRUE
    /\ _status' = "cancelling"
    /\ UNCHANGED <<n_simulations, w_pc, w_batch_start, all_results, _completed,
                   _total, published, w_error, distribution>>
    /\ UNCHANGED not_wf_vars

\* get_progress query
GetProgress == [completed |-> _completed, total |-> _total, status |-> _status]

\* AprioriSimulationWorkflow.__init__
WfInit ==
    /\ n_simulations \in 0..MaxSimulations
    /\ w_pc = "start"
    /\ w_batch_start = 0
    /\ all_results = <<>>
    /\ _completed = 0
    /\ _total = 0
    /\ _cancelled = FALSE
    /\ _status = "initializing"
    /\ published = <<>>
    /\ w_error = "none"
    /\ distribution = None

WfIdle ==
    /\ n_simulations = 0
    /\ w_pc = "idle"
    /\ w_batch_start = 0
    /\ all_results = <<>>
    /\ _completed = 0
    /\ _total = 0
    /\ _cancelled = FALSE
    /\ _status = "initializing"
    /\ published = <<>>
    /\ w_error = "none"
    /\ distribution = None

WfNext ==
    \/ WfRun
    \/ WfStartBatch
    \/ WfLoopCancelled
    \/ WfLoopExhausted
    \/ WfBatchDone
    \/ WfNotifyDone
    \/ WfStoreDone
    \/ WfReturn
    \/ WfActivityFails
    \/ CancelSimulation

\* ------------------------------------------------------------------ ToMTracker

MaxUpdates == 2

SHADOW_VALUE_KEYS == {"autonomy", "security", "achievement", "intimacy",
                      "novelty", "stability", "power", "belonging"}

\* a key the prompts do not ask for
ExtraKey == "charisma"
JsonKeys == SHADOW_VALUE_KEYS \cup {ExtraKey}

\* one member of a JSON object: absent, a number (in 1/10000), the NaN that
\* json.loads accepts, or a string float() does not accept
Absent == [present |-> FALSE, num |-> FALSE, nan |-> FALSE, v |-> 0]
Number(v) == [present |-> TRUE, num |-> TRUE, nan |-> FALSE, v |-> v]
NotANumber == [present |-> TRUE, num |-> TRUE, nan |-> TRUE, v |-> 0]
Text == [present |-> TRUE, num |-> FALSE, nan |-> FALSE, v |-> 0]

\* JSON documents a reply can hold
AllKeys(v) ==
    [dict |-> TRUE,
     cells |-> [k \in JsonKeys |-> IF k \in SHADOW_VALUE_KEYS THEN Number(v) ELSE Absent]]
OneKey(v) ==
    [dict |-> TRUE,
     cells |-> [k \in JsonKeys |-> IF k \in {"autonomy", ExtraKey} THEN Number(v) ELSE Absent]]
NanKey ==
    [dict |-> TRUE,
     cells |-> [k \in JsonKeys |-> IF k = "autonomy" THEN NotANumber ELSE Absent]]
EmptyDict == [dict |-> TRUE, cells |-> [k \in JsonKeys |-> Absent]]
TextCell ==
    [dict |-> TRUE,
     cells |-> [k \in JsonKeys |-> IF k = "power" THEN Text
                                   ELSE IF k \in SHADOW_VALUE_KEYS THEN Number(2500)
                                   ELSE Absent]]
\* valid JSON that is not an object, such as a list
NonDict == [dict |-> FALSE, cells |-> [k \in JsonKeys |-> Absent]]

\* response.content of a structured call
Garbage == [parseable |-> FALSE, fenced |-> FALSE, doc |-> NonDict]
Plain(d) == [parseable |-> TRUE, fenced |-> FALSE, doc |-> d]
Fenced(d) == [parseable |-> TRUE, fenced |-> TRUE, doc |-> d]

\* the replies each structured call is answered with
InferReplies == {Garbage, Fenced(AllKeys(2500)), Plain(AllKeys(-20000)),
                 Plain(OneKey(20000)), Plain(NanKey), Plain(EmptyDict)}
ProjectReplies == {Garbage, Plain(AllKeys(-20000)), Plain(AllKeys(20000)),
                   Plain(NanKey), Plain(TextCell), Plain(NonDict)}
L3Replies == {Garbage, Plain(EmptyDict)}
StrategyReplies == {Garbage, Plain(EmptyDict)}

\* _kl_divergence: a Jensen-Shannon divergence, between 0 and ln 2; its
\* logarithms are not computed here, the value is any of the two ends
DivergenceValues == {0, 6931}

Returned(v) == [ok |-> TRUE, error |-> "none", val |-> v]
Raised(e) == [ok |-> FALSE, error |-> e, val |-> <<>>]

LlmJsonCall_NoFenceStrip(reply) ==
    IF reply.parseable /\ ~reply.fenced THEN Returned(reply.doc)
    ELSE Raised("JSONDecodeError")

\* _llm_json_call: strip the markdown fence lines, then json.loads(content)
LlmJsonCall(reply) ==
    LET content == IF reply.fenced THEN [reply EXCEPT !.fenced = FALSE] ELSE reply
    IN  IF content.parseable /\ ~content.fenced THEN Returned(content.doc)
        ELSE Raised("JSONDecodeError")

\* for key in SHADOW_VALUE_KEYS: float(raw.get(key, default)) clamped to [lo, hi]
\* by max(lo, min(hi, val)); min(hi, nan) is hi, no comparison with nan being true
ClampedValues(raw, default, lo, hi) ==
    IF ~raw.ok THEN raw
    ELSE IF ~raw.val.dict THEN Raised("AttributeError")
    ELSE IF \E k \in SHADOW_VALUE_KEYS :
                raw.val.cells[k].present /\ ~raw.val.cells[k].num
         THEN Raised("ValueError")
    ELSE Returned([k \in SHADOW_VALUE_KEYS |->
                      LET c == raw.val.cells[k]
                          val == IF c.present THEN c.v ELSE default
                      IN  IF c.nan THEN Max(lo, hi) ELSE Max(lo, Min(hi, val))])

\* _infer_values_from_utterance: deltas in [-0.3, 0.3], 0.0 for a missing key
InferValuesFromUtterance(reply) == ClampedValues(LlmJsonCall(reply), 0, -3000, 3000)

\* _project_their_model_of_me: values in [0, 1], 0.5 for a missing key
ProjectTheirModelOfMe(reply) == ClampedValues(LlmJsonCall(reply), 5000, 0, Unit)

\* _compute_fourth_order_loop: values in [0, 1], 0.5 for a missing key
ComputeFourthOrderLoop(reply) == ClampedValues(LlmJsonCall(reply), 5000, 0, Unit)

\* _recommend_strategy: raw.get("strategy", "probe"), raw.get("rationale", "")
RecommendStrategy(reply) ==
    LET raw == LlmJsonCall(reply)
    IN  IF ~raw.ok THEN raw
        ELSE IF ~raw.val.dict THEN Raised("AttributeError")
        ELSE Returned("probe")

\* confidence * l_delta, kept to four decimals
Scaled(confidence, l_delta) == Round4(confidence * l_delta, Unit)

BayesianUpdate_NoClamp(prior, likelihood, confidence) ==
    [k \in SHADOW_VALUE_KEYS |->
        LET p == IF k \in DOMAIN prior THEN prior[k] ELSE 5000
            l_delta == IF k \in DOMAIN likelihood THEN likelihood[k] ELSE 0
        IN  p + Scaled(confidence, l_delta)]

\* _bayesian_update: max(0.0, min(1.0, p + confidence * l_delta)) per key
BayesianUpdate(prior, likelihood, confidence) ==
    [k \in SHADOW_VALUE_KEYS |->
        LET p == IF k \in DOMAIN prior THEN prior[k] ELSE 5000
            l_delta == IF k \in DOMAIN likelihood THEN likelihood[k] ELSE 0
        IN  Max(0, Min(Unit, p + Scaled(confidence, l_delta)))]

\* _get_or_init_model: neutral priors, confidence 0.3
NeutralModel ==
    [l1 |-> [k \in SHADOW_VALUE_KEYS |-> 5000],
     l2 |-> [k \in SHADOW_VALUE_KEYS |-> 5000],
     l3 |-> None,
     belief_confidence |-> 3000,
     epistemic_divergence |-> 0,
     update_count |-> 0]

GetOrInitModel == IF IsNone(t_model) THEN NeutralModel ELSE t_model[1]

\* min(1.0, confidence * 0.98 + (1.0 - min(divergence, 1.0)) * 0.03)
ConfidenceUpdate(confidence, divergence) ==
    Min(Unit, Round4(98 * confidence + 3 * (Unit - Min(divergence, Unit)), 100))

\* ToMTracker.hidden_thought(other_id, last_utterance, conversation_history):
\* the structured calls answer with any of the replies; an exception of a step
\* leaves the call with what the earlier steps wrote
HiddenThought ==
    /\ t_pc = "ready"
    /\ t_turn_number < MaxUpdates
    /\ t_turn_number' = t_turn_number + 1
    /\ \E r_infer \in InferReplies, r_project \in ProjectReplies,
          r_l3 \in (IF t_depth >= 3 THEN L3Replies ELSE {Garbage}),
          r_strategy \in StrategyReplies, divergence \in DivergenceValues :
        LET model == GetOrInitModel
            likelihood == InferValuesFromUtterance(r_infer)
            posterior == BayesianUpdate(model.l1, likelihood.val,
                                        model.belief_confidence)
            with_l1 == [model EXCEPT !.l1 = posterior]
            l2_values == ProjectTheirModelOfMe(r_project)
            with_l2 == [with_l1 EXCEPT !.l2 = l2_values.val]
            l3_belief == ComputeFourthOrderLoop(r_l3)
            with_l3 == IF t_depth >= 3 THEN [with_l2 EXCEPT !.l3 = Some(l3_belief.val)]
                       ELSE with_l2
            updated == [with_l3 EXCEPT
                           !.epistemic_divergence = divergence,
                           !.belief_confidence = ConfidenceUpdate(@, divergence),
                           !.update_count = @ + 1]
            strategy == RecommendStrategy(r_strategy)
        IN  IF ~likelihood.ok
            THEN /\ t_model' = Some(model)
                 /\ t_outcome' = likelihood.error
                 /\ t_likelihood' = None
                 /\ t_thoughts' = t_thoughts
            ELSE IF ~l2_values.ok
            THEN /\ t_model' = Some(with_l1)
                 /\ t_outcome' = l2_values.error
                 /\ t_likelihood' = Some(likelihood.val)
                 /\ t_thoughts' = t_thoughts
            ELSE IF t_depth >= 3 /\ ~l3_belief.ok
            THEN /\ t_model' = Some(with_l2)
                 /\ t_outcome' = l3_belief.error
                 /\ t_likelihood' = Some(likelihood.val)
                 /\ t_thoughts' = t_thoughts
            ELSE IF ~strategy.ok
            THEN /\ t_model' = Some(updated)
                 /\ t_outcome' = strategy.error
                 /\ t_likelihood' = Some(likelihood.val)
                 /\ t_thoughts' = t_thoughts
            ELSE /\ t_model' = Some(updated)
                 /\ t_outcome' = "returned"
                 /\ t_likelihood' = Some(likelihood.val)
                 /\ t_thoughts' = t_thoughts + 1
    /\ UNCHANGED <<t_pc, t_depth, bu_in, bu_out>>
    /\ UNCHANGED not_trk_vars

\* one call of _bayesian_update(prior, likelihood, confidence)
BayesianUpdateCall ==
    /\ t_pc = "unit"
    /\ bu_out' = Some(BayesianUpdate(bu_in.prior, bu_in.likelihood, bu_in.confidence))
    /\ t_pc' = "unit_done"
    /\ UNCHANGED <<t_depth, t_turn_number, t_model, t_outcome, t_likelihood,
                   t_thoughts, bu_in>>
    /\ UNCHANGED not_trk_vars

\* arguments of _bayesian_update: priors in [0, 1] (one dict without keys),
\* likelihoods in [-0.3, 0.3], confidences in [0, 1]
BuPriors == {[k \in SHADOW_VALUE_KEYS |-> p] : p \in {0, 500, 9500, Unit}}
                \cup {[k \in {} |-> 0]}
BuLikelihoods == {[k \in SHADOW_VALUE_KEYS |-> l] : l \in {-3000, 0, 3000}}
                     \cup {[k \in {"power"} |-> 3000]}
BuConfidences == {0, 7000, Unit}

NoBuInput == [prior |-> <<>>, likelihood |-> <<>>, confidence |-> 0]

\* ToMTracker.__init__ (recursion_depth 2 or 3), or the arguments of one
\* _bayesian_update call on a fresh tracker
TrkInit ==
    /\ t_turn_number = 0
    /\ t_model = None
    /\ t_outcome = "none"
    /\ t_likelihood = None
    /\ t_thoughts = 0
    /\ bu_out = None
    /\ \/ /\ t_pc = "ready"
          /\ t_depth \in {2, 3}
          /\ bu_in = NoBuInput
       \/ /\ t_pc = "unit"
          /\ t_depth = 2
          /\ bu_in \in [prior : BuPriors, likelihood : BuLikelihoods,
                        confidence : BuConfidences]

TrkIdle ==
    /\ t_pc = "idle"
    /\ t_depth = 2
    /\ t_turn_number = 0
    /\ t_model = None
    /\ t_outcome = "none"
    /\ t_likelihood = None
    /\ t_thoughts = 0
    /\ bu_in = NoBuInput
    /\ bu_out = None

TrkNext ==
    \/ HiddenThought
    \/ BayesianUpdateCall

\* --------------------------------------------- the same timeline, run twice

Runs == {1, 2}

\* values uuid4() can return
Uuids == 1..4

\* TimelineResult of run_simulation(seed=seed): the fields a failed timeline
\* also has, the crisis severity drawn for the seed, the timeline_id of
\* default_factory uuid4, and the timestamp of the transcript's first turn
ReplayResult(seed, rng, id, now) ==
    [seed |-> seed,
     crisis_severity |-> GenerateBlackSwan(seed, rng).severity,
     reached_homeostasis |-> TRUE, antifragile |-> TRUE, turns_total |-> 9,
     timeline_id |-> id,
     first_timestamp |-> now]

\* run r: run_simulation(shadow_a, shadow_b, llm, event_generator, seed=rp_seed)
\* with a language model that answers the same prompts the same way
RunSimulation(r) ==
    /\ IsNone(rp_results[r])
    /\ \E id \in Uuids :
           rp_results' = [rp_results EXCEPT
                             ![r] = Some(ReplayResult(rp_seed, rp_random, id, rp_clock))]
    /\ rp_random' = GenerateBlackSwan(rp_seed, rp_random).rng
    /\ rp_clock' = rp_clock + 1
    /\ UNCHANGED rp_seed
    /\ UNCHANGED not_rep_vars

RepInit ==
    /\ rp_seed \in 1..MaxTimelines
    /\ rp_clock = 0
    /\ rp_random = UnseededRandom
    /\ rp_results = [r \in Runs |-> None]

RepIdle ==
    /\ rp_seed = 0
    /\ rp_clock = 0
    /\ rp_random = [seed |-> 0, draws |-> 0]
    /\ rp_results = <<>>

RepNext == \E r \in Runs : RunSimulation(r)

\* ------------------------------------------ RelationalProbabilityDistribution

MaxDistribution == 6

DistSeverities == {0, 5000, 9000}
DistTimelines == [crisis_severity : DistSeverities, reached_homeostasis : BOOLEAN]

\* sorted(t.crisis_severity for t in self.timelines)
RECURSIVE Insert(_, _)
Insert(x, sorted) ==
    IF sorted = <<>> THEN <<x>>
    ELSE IF x <= Head(sorted) THEN <<x>> \o sorted
    ELSE <<Head(sorted)>> \o Insert(x, Tail(sorted))

RECURSIVE Sorted(_)
Sorted(s) == IF s = <<>> THEN <<>> ELSE Insert(Head(s), Sorted(Tail(s)))

Severities(ts) == Sorted([i \in 1..Len(ts) |-> ts[i].crisis_severity])

\* a rate as the fraction num / den; 0.0 is 0 / 1
Rate(num, den) == [num |-> num, den |-> den]
RateGeq(a, b) == a.num * b.den >= b.num * a.den

\* above = [t for t in timelines if t.crisis_severity > threshold];
\* 0.0 if not above, else the share of above that reached homeostasis
Above(ts, threshold) == SelectSeq(ts, LAMBDA t : t.crisis_severity > threshold)

RateAbove(ts, threshold) ==
    LET above == Above(ts, threshold)
    IN  IF above = <<>> THEN Rate(0, 1)
        ELSE Rate(Len(SelectSeq(above, LAMBDA t : t.reached_homeostasis)), Len(above))

P20Index_NinthDecile(n) == (9 * n) \div 10

\* len(severities) // 5, as a 0-based index
P20Index(n) == n \div 5

\* int(len(severities) * 0.8), as a 0-based index
P80Index(n) == (8 * n) \div 10

P20Threshold(ts) ==
    IF Len(ts) >= 5 THEN Severities(ts)[P20Index(Len(ts)) + 1] ELSE 0

P80Threshold(ts) ==
    LET severities == Severities(ts)
        idx == P80Index(Len(ts))
    IN  IF idx < Len(severities) THEN severities[idx + 1] ELSE Last(severities)

p20_homeostasis(ts) == IF ts = <<>> THEN Rate(0, 1) ELSE RateAbove(ts, P20Threshold(ts))

p80_homeostasis(ts) == IF ts = <<>> THEN Rate(0, 1) ELSE RateAbove(ts, P80Threshold(ts))

\* the computed field p20_homeostasis is read
ReadP20 ==
    /\ timelines # <<>>
    /\ IsNone(p20)
    /\ p20' = Some(p20_homeostasis(timelines))
    /\ UNCHANGED <<timelines, p80, collapse_attribution, analysis, report>>
    /\ UNCHANGED not_rpd_vars

\* the computed field p80_homeostasis is read
ReadP80 ==
    /\ timelines # <<>>
    /\ IsNone(p80)
    /\ p80' = Some(p80_homeostasis(timelines))
    /\ UNCHANGED <<timelines, p20, collapse_attribution, analysis, report>>
    /\ UNCHANGED not_rpd_vars

\* RelationalProbabilityDistribution(pair_id, n_simulations >= 1, timelines)
RpdInit ==
    /\ \E n \in 1..MaxDistribution : timelines \in [1..n -> DistTimelines]
    /\ p20 = None
    /\ p80 = None
    /\ collapse_attribution = None
    /\ analysis = None
    /\ report = None

RpdIdle ==
    /\ timelines = <<>>
    /\ p20 = None
    /\ p80 = None
    /\ collapse_attribution = None
    /\ analysis = None
    /\ report = None

RpdNext == ReadP20 \/ ReadP80

\* ----------------------------------------------------- collapse_attribution

\* TimelineResult.crisis_axis: a string; "unknown" is the placeholder's
Axes == {"attachment", "values", "unknown"}
AxisSeverity == 5000
AxisTimelines ==
    [crisis_severity : {AxisSeverity}, reached_homeostasis : BOOLEAN, crisis_axis : Axes]

\* collapsed = [t for t in self.timelines if not t.reached_homeostasis]
Collapsed(ts) == SelectSeq(ts, LAMBDA t : ~t.reached_homeostasis)

\* Counter(t.crisis_axis for t in collapsed)
Counts(collapsed) ==
    LET axes == {collapsed[i].crisis_axis : i \in 1..Len(collapsed)}
    IN  [axis \in axes |->
            Len(SelectSeq(collapsed, LAMBDA t : t.crisis_axis = axis))]

AttributionTotal_AllTimelines(ts, collapsed) == Len(ts)

\* total = len(collapsed)
AttributionTotal(ts, collapsed) == Len(collapsed)

\* {} without collapsed timelines, else {axis: count / total}
CollapseAttribution(ts) ==
    LET collapsed == Collapsed(ts)
        counts == Counts(collapsed)
        total == AttributionTotal(ts, collapsed)
    IN  [axis \in DOMAIN counts |-> Rate(counts[axis], total)]

\* the computed field collapse_attribution is read
ReadCollapseAttribution ==
    /\ timelines # <<>>
    /\ IsNone(collapse_attribution)
    /\ collapse_attribution' = Some(CollapseAttribution(timelines))
    /\ UNCHANGED <<timelines, p20, p80, analysis, report>>
    /\ UNCHANGED not_rpd_vars

AttrInit ==
    /\ \E n \in 1..MaxDistribution : timelines \in [1..n -> AxisTimelines]
    /\ p20 = None
    /\ p80 = None
    /\ collapse_attribution = None
    /\ analysis = None
    /\ report = None

AttrNext == ReadCollapseAttribution

\* ------------------------------- analyze_distribution, generate_executive_report

MaxReported == 3

ReportedElasticity == 5000
ReportedTimelines ==
    [crisis_severity : DistSeverities, reached_homeostasis : BOOLEAN,
     antifragile : BOOLEAN, narrative_elasticity : {ReportedElasticity},
     crisis_axis : {"values"}]

\* a / b of two numbers
Div(num, den) == IF den = 0 THEN Raised("ZeroDivisionError") ELSE Returned(Rate(num, den))

\* homeostasis_rate: 0.0 if not self.timelines, else the share that reached it
HomeostasisRate(ts) ==
    IF ts = <<>> THEN Returned(Rate(0, 1))
    ELSE Div(Len(SelectSeq(ts, LAMBDA t : t.reached_homeostasis)), Len(ts))

\* antifragility_rate: 0.0 if not self.timelines, else the antifragile share
AntifragilityRate(ts) ==
    IF ts = <<>> THEN Returned(Rate(0, 1))
    ELSE Div(Len(SelectSeq(ts, LAMBDA t : t.antifragile)), Len(ts))

\* statistics.median: StatisticsError on no data
Median(values) ==
    IF values = <<>> THEN Raised("StatisticsError")
    ELSE LET sorted == Sorted(values)
             n == Len(sorted)
         IN  Returned(IF n % 2 = 1 THEN sorted[(n + 1) \div 2]
                      ELSE (sorted[n \div 2] + sorted[n \div 2 + 1]) \div 2)

\* median_elasticity: 0.0 if not self.timelines, else the median
MedianElasticity(ts) ==
    IF ts = <<>> THEN Returned(0)
    ELSE Median([i \in 1..Len(ts) |-> ts[i].narrative_elasticity])

\* primary_collapse_vector: "none" without attribution, else its largest axis
PrimaryCollapseVector(ts) ==
    LET attr == CollapseAttribution(ts)
    IN  IF DOMAIN attr = {} THEN "none"
        ELSE CHOOSE axis \in DOMAIN attr :
                 \A other \in DOMAIN attr : RateGeq(attr[axis], attr[other])

analyze_distribution_NoGuard(ts) ==
    LET h_rate == HomeostasisRate(ts)
    IN  IF ~h_rate.ok THEN h_rate
        ELSE Returned([error |-> FALSE, homeostasis_rate |-> h_rate.val])

\* analyze_distribution: {"error": ...} if not timelines, else the analysis
\* (quartiles, survival curve, intervals, risk scenarios, recommendation),
\* whose divisions are all by the length of a list tested non-empty
analyze_distribution(ts) ==
    IF ts = <<>> THEN Returned([error |-> TRUE, homeostasis_rate |-> Rate(0, 1)])
    ELSE LET h_rate == HomeostasisRate(ts)
         IN  IF ~h_rate.ok THEN h_rate
             ELSE Returned([error |-> FALSE, homeostasis_rate |-> h_rate.val])

\* generate_executive_report(dist, analysis): analyses itself when analysis is
\* None, reads every section with analysis.get(..., default) and formats the
\* distribution's computed fields
generate_executive_report(ts, given) ==
    LET own == IF IsNone(given) THEN analyze_distribution(ts) ELSE given[1]
        fields == <<HomeostasisRate(ts), AntifragilityRate(ts), MedianElasticity(ts),
                    Returned(p20_homeostasis(ts)), Returned(p80_homeostasis(ts)),
                    Returned(PrimaryCollapseVector(ts))>>
        failed == {i \in 1..Len(fields) : ~fields[i].ok}
    IN  IF ~own.ok THEN own
        ELSE IF failed # {} THEN fields[CHOOSE i \in failed : \A j \in failed : i <= j]
        ELSE Returned("text")

\* mc.analyze_distribution(dist)
CallAnalyze ==
    /\ IsNone(analysis)
    /\ analysis' = Some(analyze_distribution(timelines))
    /\ UNCHANGED <<timelines, p20, p80, collapse_attribution, report>>
    /\ UNCHANGED not_rpd_vars

\* mc.generate_executive_report(dist) or (dist, analysis)
CallReport ==
    /\ IsNone(report)
    /\ \E given \in {None, analysis} :
           report' = Some(generate_executive_report(timelines, given))
    /\ UNCHANGED <<timelines, p20, p80, collapse_attribution, analysis>>
    /\ UNCHANGED not_rpd_vars

\* RelationalProbabilityDistribution(pair_id, n_simulations=1, timelines=[...]),
\* the empty list included
ReportInit ==
    /\ \E n \in 0..MaxReported : timelines \in [1..n -> ReportedTimelines]
    /\ p20 = None
    /\ p80 = None
    /\ collapse_attribution = None
    /\ analysis = None
    /\ report = None

ReportNext == CallAnalyze \/ CallReport

\* ------------------------------------------------------ the risk classifiers

ScoreValues == {0, 2000, 2001, 3000, 3001, 4000, 4001, 6000, 6001, 6500, 6501,
                8000, 8001, 9000, 9001, Unit}
CollapseThresholds == {3000, 6500, 9000}

ClassifyRisk_ModerateFirst(divergence, threshold) ==
    IF divergence > 8000 THEN "CRITICAL"
    ELSE IF divergence > 4000 THEN "MODERATE"
    ELSE IF divergence > threshold THEN "HIGH"
    ELSE "LOW"

\* ToMTracker._classify_risk(divergence), threshold = self._collapse_threshold
ClassifyRisk(divergence, threshold) ==
    IF divergence > 8000 THEN "CRITICAL"
    ELSE IF divergence > threshold THEN "HIGH"
    ELSE IF divergence > 4000 THEN "MODERATE"
    ELSE "LOW"

NoLevels == [tracker |-> None, detector |-> None]

\* tracker._classify_risk(x), tracker._classify_risk(y)
ClassifyTracker ==
    /\ scores # <<>>
    /\ IsNone(risk_levels.tracker)
    /\ risk_levels' = [risk_levels EXCEPT !.tracker =
                          Some(<<ClassifyRisk(scores[1], collapse_threshold),
                                 ClassifyRisk(scores[2], collapse_threshold)>>)]
    /\ UNCHANGED <<scores, collapse_threshold>>
    /\ UNCHANGED not_cls_vars

\* BeliefCollapseDetector._classify_risk_level(x), (y)
ClassifyDetector ==
    /\ scores # <<>>
    /\ IsNone(risk_levels.detector)
    /\ risk_levels' = [risk_levels EXCEPT !.detector =
                          Some(<<ClassifyRiskLevel(scores[1]),
                                 ClassifyRiskLevel(scores[2])>>)]
    /\ UNCHANGED <<scores, collapse_threshold>>
    /\ UNCHANGED not_cls_vars

ClsInit ==
    /\ scores \in {xy \in ScoreValues \X ScoreValues : xy[1] <= xy[2]}
    /\ collapse_threshold \in CollapseThresholds
    /\ risk_levels = NoLevels

ClsIdle ==
    /\ scores = <<>>
    /\ collapse_threshold = 0
    /\ risk_levels = NoLevels

ClsNext == ClassifyTracker \/ ClassifyDetector

\* --------------------------------- ToMTracker: the agents one tracker models

MaxThoughts == 3

AgentIds == {"agent_a", "agent_b", "agent_c"}

\* values a posterior holds for one value key
PosteriorValues == {2000, 8000}

EpistemicModel_NoValidator(owner, target) ==
    Returned([owner_agent_id |-> owner, target_agent_id |-> target,
              l1_belief |-> 5000, update_count |-> 0])

\* EpistemicModel(owner_agent_id=..., target_agent_id=..., neutral beliefs):
\* validate_agent_ids raises when owner and target are the same
EpistemicModel(owner, target) ==
    IF owner = target THEN Raised("ValueError")
    ELSE Returned([owner_agent_id |-> owner, target_agent_id |-> target,
                   l1_belief |-> 5000, update_count |-> 0])

_get_or_init_model_AlwaysNew(models, owner, other_id) ==
    EpistemicModel(owner, other_id)

\* _get_or_init_model(other_id): the stored model, or a new one
_get_or_init_model(models, owner, other_id) ==
    IF other_id \in DOMAIN models THEN Returned(models[other_id])
    ELSE EpistemicModel(owner, other_id)

\* self._belief_state.epistemic_models[other_id] = model
Stored(models, other_id, model) ==
    [k \in DOMAIN models \cup {other_id} |-> IF k = other_id THEN model ELSE models[k]]

\* where a hidden_thought call ends: an exception of the inference call, of
\* the projection call, of the verbalization or strategy call, or its return
HiddenThoughtEnds == {"infer", "project", "strategy", "returned"}

\* ToMTracker.hidden_thought(other_id, ...): turn_number, the model of
\* other_id, its L1 posterior, update_count, the thought record
hidden_thought(other_id) ==
    /\ bs_turn_number < MaxThoughts
    /\ bs_turn_number' = bs_turn_number + 1
    /\ ht_other' = other_id
    /\ LET got == _get_or_init_model(epistemic_models, agent_id, other_id)
       IN  IF ~got.ok
           THEN /\ ht_outcome' = got.error
                /\ UNCHANGED <<epistemic_models, _thought_log>>
           ELSE \E end \in HiddenThoughtEnds, posterior \in PosteriorValues :
                    LET model == got.val
                        with_l1 == [model EXCEPT !.l1_belief = posterior]
                        updated == [with_l1 EXCEPT !.update_count = @ + 1]
                        thought_record == [agent |-> agent_id,
                                           turn |-> bs_turn_number',
                                           other_id |-> other_id]
                    IN  /\ epistemic_models' =
                               Stored(epistemic_models, other_id,
                                      CASE end = "infer" -> model
                                        [] end = "project" -> with_l1
                                        [] OTHER -> updated)
                        /\ _thought_log' = IF end = "returned"
                                           THEN Append(_thought_log, thought_record)
                                           ELSE _thought_log
                        /\ ht_outcome' = IF end = "returned" THEN "returned"
                                         ELSE "JSONDecodeError"
    /\ UNCHANGED agent_id
    /\ UNCHANGED not_bst_vars

\* ToMTracker(agent_id, shadow, llm_client)
BstInit ==
    /\ agent_id \in AgentIds
    /\ epistemic_models = <<>>
    /\ _thought_log = <<>>
    /\ bs_turn_number = 0
    /\ ht_other = "none"
    /\ ht_outcome = "none"

BstIdle ==
    /\ agent_id = "none"
    /\ epistemic_models = <<>>
    /\ _thought_log = <<>>
    /\ bs_turn_number = 0
    /\ ht_other = "none"
    /\ ht_outcome = "idle"

BstNext == \E other_id \in AgentIds : hidden_thought(other_id)

\* ------------------------------------------------- BeliefCollapseDetector

MaxAssessments == 6

\* composite risks an assessment can have, after max(0.0, min(1.0, overall))
DetRisks == {2000, 4000, 6000, 7000}

ProjectionMinHistory == 3
ProjectionWindow == 5
VelocityThreshold == 100
GrowthMinHistory == 5
GrowthPeakThreshold == 5000
GrowthRecoveryTenths == 6

\* _project_turns_until_collapse(current_risk): the mean change per turn of
\* the stored risks' last five, max(1, int(remaining / velocity))
ProjectTurnsUntilCollapse(history, current_risk) ==
    IF Len(history) < ProjectionMinHistory THEN None
    ELSE LET recent_risks == Tail_n(history, ProjectionWindow)
             \* sum(deltas) and len(deltas)
             rise == Last(recent_risks) - recent_risks[1]
             steps == Len(recent_risks) - 1
         IN  IF rise <= VelocityThreshold * steps THEN None
             ELSE Some(Max(1, ((Unit - current_risk) * steps) \div rise))

\* risks.index(peak)
PeakIndex(risks, peak) == CHOOSE i \in 1..Len(risks) :
                              risks[i] = peak /\ \A j \in 1..(i - 1) : risks[j] # peak

\* _detect_post_traumatic_growth(): peak and current of the stored risks
DetectPostTraumaticGrowth(history) ==
    IF Len(history) < GrowthMinHistory THEN FALSE
    ELSE LET peak == CHOOSE r \in {history[i] : i \in 1..Len(history)} :
                         \A i \in 1..Len(history) : history[i] <= r
             peak_idx == PeakIndex(history, peak) - 1
             current == Last(history)
         IN  /\ peak_idx < Len(history) - 2
             /\ peak > GrowthPeakThreshold
             /\ 10 * current < GrowthRecoveryTenths * peak

\* BeliefCollapseDetector.assess: the projections are computed from the
\* stored assessments, then the new assessment is stored
assess(overall) ==
    /\ Len(_collapse_history) < MaxAssessments
    /\ assessment' =
           Some([overall_collapse_risk |-> overall,
                 turns_until_likely_collapse |->
                     ProjectTurnsUntilCollapse(_collapse_history, overall),
                 is_post_traumatic_growth |->
                     DetectPostTraumaticGrowth(_collapse_history)])
    /\ _collapse_history' = Append(_collapse_history, overall)
    /\ UNCHANGED not_det_vars

DetInit ==
    /\ _collapse_history = <<>>
    /\ assessment = None

DetIdle ==
    /\ _collapse_history = <<>>
    /\ assessment = <<"idle">>

DetNext == \E overall \in DetRisks : assess(overall)

\* ------------------------------------------- identify_shared_vulnerability

Processes == {1, 2}

\* SHADOW_VALUE_KEYS is a frozenset of strings: its iteration order follows
\* the strings' hashes, which each interpreter process salts anew
DeclaredOrder == <<"autonomy", "security", "achievement", "intimacy",
                   "novelty", "stability", "power", "belonging">>
Reversed(order) == [i \in 1..Len(order) |-> order[Len(order) + 1 - i]]
Rotated(order) == Tail(order) \o <<Head(order)>>
KeyOrders == {DeclaredOrder, Reversed(DeclaredOrder), Rotated(DeclaredOrder)}

AttachmentStyles == {"secure", "anxious", "avoidant"}
VulnFears == {"rejection", "engulfment"}
\* value profiles, in units of 1/100
VulnValues == {[k \in SHADOW_VALUE_KEYS |-> IF k \in high THEN 80 ELSE 50] :
                  high \in SUBSET {"autonomy", "intimacy"}}

\* _FEAR_TO_AXIS, for the fears drawn
FearToAxis(fear) == IF fear = "rejection" THEN "intimacy" ELSE "autonomy"

\* joint_stakes[axis] *= 1.4 for each shared fear mapped to the axis, in tenths
\* per factor over two factors
FearBoost(fears, axis) ==
    LET n == Cardinality({f \in fears : FearToAxis(f) = axis})
    IN  CASE n = 0 -> 100 [] n = 1 -> 140 [] OTHER -> 196

\* attachment style resonance: 1.3 on intimacy and belonging (both anxious),
\* 1.3 on autonomy (both avoidant), 1.6 on intimacy (anxious with avoidant)
StyleBoost(style_a, style_b, axis) ==
    IF style_a = "anxious" /\ style_b = "anxious"
    THEN (IF axis \in {"intimacy", "belonging"} THEN 13 ELSE 10)
    ELSE IF style_a = "avoidant" /\ style_b = "avoidant"
    THEN (IF axis = "autonomy" THEN 13 ELSE 10)
    ELSE IF {"anxious", "avoidant"} \subseteq {style_a, style_b}
    THEN (IF axis = "intimacy" THEN 16 ELSE 10)
    ELSE 10

\* joint_stakes after steps 1 to 4
JointStakes(pair, fears) ==
    [axis \in SHADOW_VALUE_KEYS |->
        pair.a.values[axis] * pair.b.values[axis] * FearBoost(fears, axis)
            * StyleBoost(pair.a.attachment_style, pair.b.attachment_style, axis)]

\* max(joint_stakes, key=joint_stakes.get): the first key, in the dict's
\* insertion order, whose stake is the largest
ArgMax(order, stakes) ==
    LET at == {i \in 1..Len(order) :
                  \A j \in 1..Len(order) : stakes[order[j]] <= stakes[order[i]]}
    IN  order[CHOOSE i \in at : \A j \in at : i <= j]

\* identify_shared_vulnerability(shadow_a, shadow_b) in process p
IdentifySharedVulnerability(p) ==
    /\ IsNone(top_axis[p])
    /\ top_axis' = [top_axis EXCEPT
                       ![p] = Some(ArgMax(key_order[p], JointStakes(shadows, shared_fears)))]
    /\ UNCHANGED <<shadows, shared_fears, key_order>>
    /\ UNCHANGED not_vul_vars

VulInit ==
    /\ shadows \in [a : [values : VulnValues, attachment_style : AttachmentStyles],
                    b : [values : VulnValues, attachment_style : AttachmentStyles]]
    /\ shared_fears \in SUBSET VulnFears
    /\ key_order \in [Processes -> KeyOrders]
    /\ top_axis = [p \in Processes |-> None]

VulIdle ==
    /\ shadows = <<>>
    /\ shared_fears = {}
    /\ key_order = <<>>
    /\ top_axis = <<>>

VulNext == \E p \in Processes : IdentifySharedVulnerability(p)

AuxIdle == BstIdle /\ DetIdle /\ VulIdle

\* ------------------------------------------------------------ specifications

DialogueInit == DlgInit /\ EnsIdle /\ WfIdle /\ TrkIdle /\ RepIdle /\ RpdIdle /\ ClsIdle /\ AuxIdle
DialogueSpec == DialogueInit /\ [][DlgNext]_vars

EnsembleInit == EnsInit /\ DlgIdle /\ WfIdle /\ TrkIdle /\ RepIdle /\ RpdIdle /\ ClsIdle /\ AuxIdle
EnsembleSpec == EnsembleInit /\ [][EnsNext]_vars

WorkflowInit == WfInit /\ DlgIdle /\ EnsIdle /\ TrkIdle /\ RepIdle /\ RpdIdle /\ ClsIdle /\ AuxIdle
WorkflowSpec == WorkflowInit /\ [][WfNext]_vars

TrackerInit == TrkInit /\ DlgIdle /\ EnsIdle /\ WfIdle /\ RepIdle /\ RpdIdle /\ ClsIdle /\ AuxIdle
TrackerSpec == TrackerInit /\ [][TrkNext]_vars

ReplayInit == RepInit /\ DlgIdle /\ EnsIdle /\ WfIdle /\ TrkIdle /\ RpdIdle /\ ClsIdle /\ AuxIdle
ReplaySpec == ReplayInit /\ [][RepNext]_vars

HomeostasisInit == HomInit /\ EnsIdle /\ WfIdle /\ TrkIdle /\ RepIdle /\ RpdIdle /\ ClsIdle /\ AuxIdle
HomeostasisSpec == HomeostasisInit /\ [][HomNext]_vars

DistributionInit == RpdInit /\ DlgIdle /\ EnsIdle /\ WfIdle /\ TrkIdle /\ RepIdle /\ ClsIdle /\ AuxIdle
DistributionSpec == DistributionInit /\ [][RpdNext]_vars

AttributionInit == AttrInit /\ DlgIdle /\ EnsIdle /\ WfIdle /\ TrkIdle /\ RepIdle /\ ClsIdle /\ AuxIdle
AttributionSpec == AttributionInit /\ [][AttrNext]_vars

ReportingInit == ReportInit /\ DlgIdle /\ EnsIdle /\ WfIdle /\ TrkIdle /\ RepIdle /\ ClsIdle /\ AuxIdle
ReportingSpec == ReportingInit /\ [][ReportNext]_vars

ClassifierInit ==
    ClsInit /\ DlgIdle /\ EnsIdle /\ WfIdle /\ TrkIdle /\ RepIdle /\ RpdIdle /\ AuxIdle
ClassifierSpec == ClassifierInit /\ [][ClsNext]_vars

MainIdle == DlgIdle /\ EnsIdle /\ WfIdle /\ TrkIdle /\ RepIdle /\ RpdIdle /\ ClsIdle

BeliefStateInit == BstInit /\ MainIdle /\ DetIdle /\ VulIdle
BeliefStateSpec == BeliefStateInit /\ [][BstNext]_vars

DetectorInit == DetInit /\ MainIdle /\ BstIdle /\ VulIdle
DetectorSpec == DetectorInit /\ [][DetNext]_vars

VulnerabilityInit == VulInit /\ MainIdle /\ BstIdle /\ DetIdle
VulnerabilitySpec == VulnerabilityInit /\ [][VulNext]_vars

\* ================================================================== claims

\* ------------------------------------------------------------------------
\* C1: every TimelineResult produced by a timeline run has
\* antifragile = TRUE only if reached_homeostasis = TRUE.
C1_AntifragileImpliesHomeostasis ==
    ~IsNone(result) => (result[1].antifragile => result[1].reached_homeostasis)

\* ------------------------------------------------------------------------
\* C2: whichever timelines of the N fail, run_ensemble returns N results; each
\* failed timeline is replaced by a placeholder (crisis_severity 0, no
\* homeostasis, not antifragile, turns_total 0), every other timeline's result
\* is the one its task returned, and no timeline failure makes the run raise.
IsPlaceholder(r) ==
    /\ r.crisis_severity = 0
    /\ r.reached_homeostasis = FALSE
    /\ r.antifragile = FALSE
    /\ r.turns_total = 0

C2_FailureIsolation ==
    /\ e_pc = "raised" => progress_calls # <<>>
    /\ e_pc = "done" =>
          /\ Len(results) = n_timelines
          /\ \A i \in Seeds :
                /\ tasks[i].st \in {"returned", "caught", "escaped"}
                /\ tasks[i].st \in {"caught", "escaped"} => IsPlaceholder(results[i])
                /\ tasks[i].st = "returned" => results[i] = tasks[i].res

C2_Witness ==
    /\ e_pc = "done"
    /\ \E i, j, k \in Seeds :
          /\ tasks[i].st = "caught"
          /\ tasks[j].st = "escaped"
          /\ tasks[k].st = "returned"

\* ------------------------------------------------------------------------
\* C3: after every homeostasis_check the next node follows the priority
\* end (simulation_complete) > end (turn_number >= max_turns) > inject_crisis
\* (turn_number = crisis_turn, none injected yet) > check_collapse
\* (turn_number > 0, divisible by 3) > continue.
RouterPriority ==
    IF simulation_complete THEN "END"
    ELSE IF turn_number >= max_turns THEN "END"
    ELSE IF turn_number = crisis_turn /\ crisis_injected_at_turn = <<>>
         THEN "crisis_injection"
    ELSE IF turn_number > 0 /\ turn_number % 3 = 0 THEN "collapse_check"
    ELSE "hidden_thought_a"

C3_RouterPriority ==
    [][(next_node = "homeostasis_check" /\ last_node' = "homeostasis_check")
          => next_node' = RouterPriority]_vars

C3_Witness ==
    /\ last_node = "homeostasis_check"
    /\ next_node = "crisis_injection"
    /\ turn_number > 0
    /\ turn_number % 3 = 0
    /\ turn_number < max_turns

\* ------------------------------------------------------------------------
\* C4: the nodes of an exchange run in the order hidden_thought_a,
\* generate_response_a, hidden_thought_b, generate_response_b,
\* linguistic_update, homeostasis_check, each once; collapse_check or
\* crisis_injection runs only after the homeostasis_check of one exchange and
\* before the hidden_thought_a of the next.
CountRole(r) == Len(SelectSeq(conversation_history, LAMBDA t : t.role = r))

C4_ExchangeOrder ==
    LET n == Len(exchange_nodes) IN
    /\ n <= Len(ExchangeChain) + 1
    /\ \A i \in 1..n : IF i <= Len(ExchangeChain)
                       THEN exchange_nodes[i] = ExchangeChain[i]
                       ELSE exchange_nodes[i] \in AncillaryNodes
    /\ phase = "streaming" /\ n < Len(ExchangeChain) /\ n > 0
          => next_node = ExchangeChain[n + 1]
    /\ phase = "streaming" /\ n = Len(ExchangeChain)
          => next_node \in AncillaryNodes \cup {"hidden_thought_a"}
    /\ phase = "streaming" /\ n = Len(ExchangeChain) + 1
          => next_node = "hidden_thought_a"
    /\ next_node \in AncillaryNodes => n = Len(ExchangeChain)
    /\ CountRole("B") = turn_number
    /\ CountRole("A") = turn_number + (IF n \in {2, 3} THEN 1 ELSE 0)
    /\ Len(linguistic_convergence_log) = turn_number - (IF n = 4 THEN 1 ELSE 0)

C4_Witness ==
    /\ Len(exchange_nodes) = Len(ExchangeChain) + 1
    /\ exchange_nodes[Len(exchange_nodes)] = "collapse_check"
    /\ turn_number >= 3
    /\ ~IsNone(crisis_injected_at_turn)

\* ------------------------------------------------------------------------
\* C5: the engine suspends immediately before every execution of
\* crisis_injection: the stream stops with crisis_injection as the next node
\* and the dialogue state unchanged, resuming re-enters at that node, no other
\* node runs in between, and crisis_injection never runs without that
\* suspension.
DialogueStateVars ==
    <<turn_number, conversation_history, active_crisis, crisis_injected_at_turn,
      collapse_assessments, linguistic_convergence_log, simulation_complete,
      homeostasis_reached, final_resilience_score, belief_turns>>

C5_SuspendBeforeCrisis ==
    [][/\ (phase = "streaming" /\ next_node = "crisis_injection" /\ ~resuming)
             => /\ phase' = "interrupted"
                /\ next_node' = "crisis_injection"
                /\ UNCHANGED <<DialogueStateVars, last_node>>
       /\ phase = "interrupted"
             => /\ phase' = "streaming"
                /\ resuming'
                /\ next_node' = "crisis_injection"
                /\ UNCHANGED <<DialogueStateVars, last_node>>
       /\ resuming => (last_node' = "crisis_injection" \/ phase' = "raised")
       /\ (last_node' = "crisis_injection" /\ last_node # "crisis_injection")
             => resuming
      ]_vars

C5_Witness ==
    /\ last_node = "crisis_injection"
    /\ ~IsNone(crisis_injected_at_turn)
    /\ Len(SelectSeq(conversation_history, LAMBDA t : t.role = "SYSTEM")) = 1

\* ------------------------------------------------------------------------
\* C6: at every moment of an ensemble run at most max_workers timelines have
\* started and not yet finished.
C6_BoundedConcurrency == Cardinality(Running) <= max_workers

C6_Witness ==
    /\ Cardinality(Running) = max_workers
    /\ max_workers >= 2
    /\ n_timelines > max_workers
    /\ batch_start > 0

\* ------------------------------------------------------------------------
\* C7: the completed values passed to the progress callback are
\* non-decreasing, never exceed total (= N), and the last one equals total
\* when run_ensemble returns.
C7_ProgressMonotone ==
    /\ \A k \in 1..Len(progress_calls) :
          /\ progress_calls[k].total = n_timelines
          /\ progress_calls[k].completed <= progress_calls[k].total
          /\ k > 1 => progress_calls[k - 1].completed <= progress_calls[k].completed
    /\ (e_pc = "done" /\ has_callback)
          => /\ progress_calls # <<>>
             /\ progress_calls[Len(progress_calls)].completed = n_timelines

C7_Witness ==
    /\ e_pc = "done"
    /\ Len(progress_calls) >= 2
    /\ n_timelines % max_workers # 0
    /\ \E i \in Seeds : tasks[i].st \in {"caught", "escaped"}

\* ------------------------------------------------------------------------
\* C8: once the cancel signal has been received no new batch is started, and
\* a run cancelled before all batches ran ends with final status "cancelled",
\* both in its last progress update and in the progress query.
C8_CancelledStatus ==
    [][/\ (_cancelled /\ w_pc # "batch") => w_pc' # "batch"
       /\ (w_pc' = "done" /\ _cancelled' /\ Len(all_results') < n_simulations')
             => /\ published'[Len(published')].status = "cancelled"
                /\ _status' = "cancelled"
      ]_vars

\* ------------------------------------------------------------------------
\* C9: cancellation never surfaces as an error: whenever the cancel signal
\* arrives, also before the first batch has produced a result, run() does not
\* raise because of it and returns the results gathered so far.
C9_CancelNeverRaises ==
    (_cancelled /\ n_simulations >= 1)
        => /\ w_error # "validation"
           /\ w_pc = "done" => (~IsNone(distribution)
                                /\ distribution[1].timelines = all_results)

\* ------------------------------------------------------------------------
\* C10: in every run that ends, cancelled or not, the published progress
\* updates include one with completed = total, and the final update carries
\* completed = total with status "completed" or "cancelled".
C10_FinalProgressReachesTotal ==
    w_pc = "done"
        => /\ published # <<>>
           /\ published[Len(published)].completed = published[Len(published)].total
           /\ published[Len(published)].status \in {"completed", "cancelled"}

\* ------------------------------------------------------------------------
\* C11: hidden_thought never raises because of language-model output: when a
\* structured call returns text that is not parseable JSON, a neutral value
\* is substituted and the update completes normally, so no call ends with
\* the JSON decoder's exception.
C11_UnparseableJsonNeverRaises == t_outcome # "JSONDecodeError"

C13_ReplayIdentical ==
    (\A r \in Runs : ~IsNone(rp_results[r])) => rp_results[1] = rp_results[2]

\* ------------------------------------------------------------------------
\* C14: each timeline of an ensemble runs with the severity of its generated
\* parameter set: the crisis_severity of every non-failed result equals the
\* severity sampled for the parameter set of its seed, and lies within
\* severity_range.
C14_SeverityOfParameterSet ==
    \A k \in 1..Len(results) :
        ~IsPlaceholder(results[k])
            => /\ results[k].crisis_severity = ParamSeverity(results[k].seed)
               /\ severity_range[1] <= results[k].crisis_severity
               /\ results[k].crisis_severity <= severity_range[2]

\* ------------------------------------------------------------------------
\* C15: progress reporting never fails the simulation path: a progress
\* callback that raises does not abort the ensemble, so run_ensemble is never
\* left by an exception of the callback; it goes on to the next batch or to
\* the returned distribution.
C15_ProgressNeverAborts == e_pc # "raised"

\* ------------------------------------------------------------------------
\* C16: whenever generate_response_X has run (X = A, B), the tracker of agent
\* X has completed a hidden_thought call earlier in the same exchange, whatever
\* the other agent's last utterance was (the empty string included).
C16_HiddenThoughtBeforeResponse ==
    /\ last_node = "generate_response_a" => "a" \in exchange_thoughts
    /\ last_node = "generate_response_b" => "b" \in exchange_thoughts

\* ------------------------------------------------------------------------
\* C17: after homeostasis_check, homeostasis_reached is true exactly when: no
\* CRITICAL among the last 5 assessments, the latest trend is stable or
\* accelerating, a future marker occurs in the last 5 non-system turns, the
\* latest resilience delta exceeds the active crisis's elasticity threshold,
\* and turn_number >= 8.
NonSystemTurns == SelectSeq(conversation_history, LAMBDA t : t.role # "SYSTEM")

C17_HomeostasisIffFiveConditions ==
    last_node = "homeostasis_check" =>
        LET recent_a == Tail_n(collapse_assessments, 5)
            last5 == Tail_n(NonSystemTurns, 5)
            latest == Last(linguistic_convergence_log)
        IN  homeostasis_reached <=>
                /\ \A i \in 1..Len(recent_a) : recent_a[i].risk_level # "CRITICAL"
                /\ latest.convergence_trend \in {"stable", "accelerating"}
                /\ \E i \in 1..Len(last5) : last5[i].future
                /\ ~IsNone(active_crisis) =>
                       latest.resilience_delta > active_crisis[1].elasticity_threshold
                /\ turn_number >= 8

\* ------------------------------------------------------------------------
\* C18: each tracker's BeliefState.turn_number is incremented once per full
\* A+B exchange: once an exchange is complete (generate_response_b has run and
\* hidden_thought_a has not yet run again), it equals the dialogue's
\* turn_number, the number of completed exchanges, for both agents.
ExchangeComplete ==
    last_node \in {"generate_response_b", "linguistic_update", "homeostasis_check",
                   "collapse_check", "crisis_injection"}

C18_BeliefTurnPerExchange ==
    ExchangeComplete =>
        belief_turns.a = turn_number /\ belief_turns.b = turn_number

\* ------------------------------------------------------------------------
\* C19: for every distribution, whatever the number of timelines, their
\* severities and their outcomes, p20_homeostasis >= p80_homeostasis.
C19_P20AtLeastP80 ==
    (~IsNone(p20) /\ ~IsNone(p80)) => RateGeq(p20[1], p80[1])

\* C19, amended: in a distribution where no timeline that reached homeostasis
\* has a higher crisis severity than one that did not, p20_homeostasis >=
\* p80_homeostasis.
SeverityOrdersOutcomes ==
    \A i, j \in 1..Len(timelines) :
        (timelines[i].reached_homeostasis /\ ~timelines[j].reached_homeostasis)
            => timelines[i].crisis_severity <= timelines[j].crisis_severity

C19_P20AtLeastP80WhenOrdered ==
    (SeverityOrdersOutcomes /\ ~IsNone(p20) /\ ~IsNone(p80))
        => RateGeq(p20[1], p80[1])

C19_Witness ==
    /\ SeverityOrdersOutcomes
    /\ ~IsNone(p20) /\ ~IsNone(p80)
    /\ Len(timelines) >= 5
    /\ Above(timelines, P80Threshold(timelines)) # <<>>
    /\ 0 < p20[1].num /\ p20[1].num < p20[1].den

\* ------------------------------------------------------------------------
\* C20: after any sequence of hidden_thought updates, the L1 and the L2 belief
\* vector the tracker holds have exactly the eight value keys, each value in
\* [0, 1]; and _bayesian_update returns such a vector for every prior in
\* [0, 1], likelihood in [-0.3, 0.3] and confidence in [0, 1].
ValidBelief(values) ==
    /\ DOMAIN values = SHADOW_VALUE_KEYS
    /\ \A k \in SHADOW_VALUE_KEYS : 0 <= values[k] /\ values[k] <= Unit

C20_BeliefsInUnitRange ==
    /\ ~IsNone(t_model) => ValidBelief(t_model[1].l1) /\ ValidBelief(t_model[1].l2)
    /\ ~IsNone(bu_out) => ValidBelief(bu_out[1])

C20_Witness ==
    /\ t_outcome = "returned"
    /\ t_model[1].update_count >= 2
    /\ t_model[1].l1["autonomy"] > t_model[1].l1["power"]
    /\ t_model[1].l2["autonomy"] = Unit

\* ------------------------------------------------------------------------
\* C21: when at least one timeline did not reach homeostasis, the fractions
\* of collapse_attribution sum to 1 within 0.01, whatever the crisis axes of
\* the collapsed timelines.
RECURSIVE SumOfRates(_, _)
SumOfRates(rates, axes) ==
    IF axes = {} THEN Rate(0, 1)
    ELSE LET axis == CHOOSE a \in axes : TRUE
             rest == SumOfRates(rates, axes \ {axis})
         IN  Rate(rates[axis].num * rest.den + rest.num * rates[axis].den,
                  rates[axis].den * rest.den)

C21_AttributionSumsToOne ==
    (~IsNone(collapse_attribution)
        /\ \E i \in 1..Len(timelines) : ~timelines[i].reached_homeostasis)
    => LET total == SumOfRates(collapse_attribution[1], DOMAIN collapse_attribution[1])
       IN  /\ 100 * total.num >= 99 * total.den
           /\ 100 * total.num <= 101 * total.den

C21_Witness ==
    /\ ~IsNone(collapse_attribution)
    /\ Cardinality(DOMAIN collapse_attribution[1]) >= 2
    /\ \E i \in 1..Len(timelines) : timelines[i].reached_homeostasis
    /\ \E axis \in DOMAIN collapse_attribution[1] :
           collapse_attribution[1][axis].num >= 2

\* ------------------------------------------------------------------------
\* C22: on a distribution without timelines analyze_distribution returns a
\* mapping with an 'error' field instead of raising, and
\* generate_executive_report returns normally.
C22_EmptyDistributionReports ==
    timelines = <<>> =>
        /\ ~IsNone(analysis) => analysis[1].ok /\ analysis[1].val.error
        /\ ~IsNone(report) => report[1].ok

C22_Witness ==
    /\ timelines = <<>>
    /\ ~IsNone(analysis) /\ analysis[1].val.error
    /\ ~IsNone(report) /\ report[1].ok

\* ------------------------------------------------------------------------
\* C23: both risk classifiers are weakly monotone: for scores x <= y the level
\* given to x is not more severe than the level given to y, for the detector's
\* thresholds and for every collapse threshold of the tracker.
Severity(level) ==
    CASE level = "STABLE" -> 0
      [] level = "LOW" -> 1
      [] level = "MODERATE" -> 2
      [] level = "HIGH" -> 3
      [] level = "CRITICAL" -> 4

C23_ClassifiersMonotone ==
    /\ ~IsNone(risk_levels.tracker) =>
           Severity(risk_levels.tracker[1][1]) <= Severity(risk_levels.tracker[1][2])
    /\ ~IsNone(risk_levels.detector) =>
           Severity(risk_levels.detector[1][1]) <= Severity(risk_levels.detector[1][2])

C23_Witness ==
    /\ ~IsNone(risk_levels.tracker) /\ ~IsNone(risk_levels.detector)
    /\ collapse_threshold < 4000
    /\ risk_levels.tracker[1] = <<"LOW", "HIGH">>
    /\ risk_levels.detector[1] = <<"LOW", "MODERATE">>

\* ------------------------------------------------------------------------
\* C24: in every timeline that runs to completion the crisis is injected
\* exactly once, as one SYSTEM turn, at the configured crisis turn: at the end
\* crisis_injected_at_turn = crisis_at_turn and active_crisis is set, for
\* every combination of crisis_at_turn and max_turns.
InjectedOnceAtCrisisTurn ==
    /\ crisis_injected_at_turn = Some(crisis_turn)
    /\ ~IsNone(active_crisis)
    /\ CountRole("SYSTEM") = 1

C24_CrisisInjectedOnce == phase = "returned" => InjectedOnceAtCrisisTurn

\* C24, amended: a completed timeline with 1 <= crisis_at_turn < max_turns has
\* the crisis injected exactly once, as one SYSTEM turn, at crisis_at_turn;
\* with crisis_at_turn = 0 or crisis_at_turn >= max_turns the timeline ends
\* with no crisis injected.
C24_CrisisInjectedOnceWithinBudget ==
    phase = "returned" =>
        IF 1 <= crisis_turn /\ crisis_turn < max_turns
        THEN InjectedOnceAtCrisisTurn
        ELSE /\ IsNone(crisis_injected_at_turn)
             /\ IsNone(active_crisis)
             /\ CountRole("SYSTEM") = 0

C24_Witness ==
    /\ phase = "returned"
    /\ crisis_turn % CollapseCheckEvery = 0
    /\ InjectedOnceAtCrisisTurn
    /\ turn_number > crisis_turn + 1

\* ------------------------------------------------------------------------
\* C25: a collapse assessment is run every 3 turns: for every turn t with
\* 0 < t < max_turns and t divisible by 3, the finished timeline's
\* collapse_assessments hold exactly one assessment tagged with turn t, for
\* every crisis turn.
AssessmentsAt(t) ==
    Len(SelectSeq(collapse_assessments, LAMBDA a : a.turn = t))

AssessedTurns == {t \in 1..(max_turns - 1) : t % 3 = 0}

C25_AssessmentEveryThirdTurn ==
    phase = "returned" => \A t \in AssessedTurns : AssessmentsAt(t) = 1

\* C25, amended: for every such turn t other than the crisis turn the finished
\* timeline holds exactly one assessment tagged with t; for t equal to the
\* crisis turn it holds none, the crisis being injected instead.
C25_AssessmentEveryThirdTurnButCrisis ==
    phase = "returned" =>
        \A t \in AssessedTurns :
            AssessmentsAt(t) = IF t = crisis_turn THEN 0 ELSE 1

C25_Witness ==
    /\ phase = "returned"
    /\ crisis_turn \in AssessedTurns
    /\ AssessmentsAt(crisis_turn) = 0
    /\ \E t \in AssessedTurns : t > crisis_turn /\ AssessmentsAt(t) = 1

\* ------------------------------------------------------------------------
\* C26: every timeline ends within its turn budget: for every max_turns >= 0
\* and every crisis turn, a timeline whose node calls all return reaches END
\* after at most max_turns full exchanges, so turns_total <= max_turns.
C26_WithinTurnBudget ==
    phase \in {"ended", "returned"} =>
        /\ turn_number <= max_turns
        /\ ~IsNone(result) => result[1].turns_total <= max_turns

\* ------------------------------------------------------------------------
\* C27: no node sets simulation_complete, so homeostasis does not end a
\* timeline early: the loop is left only with turn_number >= max_turns, and a
\* timeline that did not fail, with max_turns >= 1, reports turns_total =
\* max_turns whether or not homeostasis was reached.
C27_OnlyTurnBudgetEnds ==
    /\ ~simulation_complete
    /\ phase \in {"ended", "returned"} => turn_number >= max_turns
    /\ (phase = "returned" /\ max_turns >= 1) => result[1].turns_total = max_turns

C27_Witness ==
    /\ phase = "returned"
    /\ max_turns > HomeostasisMinTurns
    /\ result[1].reached_homeostasis
    /\ result[1].turns_total = max_turns

\* ------------------------------------------------------------------------
\* C28: the timelines returned by run_ensemble are in parameter-set order and
\* timeline i carries seed i + 1 (the i-th of the sequence carries seed i),
\* also when it failed: a placeholder carries the seed of the timeline that
\* failed, whichever way the failure became a placeholder.
C28_SeedsInParameterOrder ==
    \A i \in 1..Len(results) : results[i].seed = i

\* ------------------------------------------------------------------------
\* C29: timelines are dispatched in consecutive batches of max_workers: no
\* timeline of a batch starts before every timeline of the previous batches
\* has finished, and the progress callback is invoked exactly once per batch,
\* after that batch, with completed equal to the number of timelines finished
\* so far.
BatchOf(i) == (i - 1) \div max_workers

Finished == {i \in Seeds : tasks[i].st \in {"returned", "caught", "escaped"}}

BatchesCollected == (Len(results) + max_workers - 1) \div max_workers

C29_BatchesAndProgress ==
    e_pc # "idle" =>
        /\ \A i, j \in Seeds :
               (tasks[i].st # "unscheduled" /\ BatchOf(j) < BatchOf(i)) => j \in Finished
        /\ has_callback =>
               /\ Len(progress_calls) = BatchesCollected
               /\ \A k \in 1..Len(progress_calls) :
                      /\ progress_calls[k].completed = Min(k * max_workers, n_timelines)
                      /\ progress_calls[k].total = n_timelines
               /\ e_pc \in {"loop", "raised", "done"} /\ progress_calls # <<>> =>
                      Last(progress_calls).completed = Cardinality(Finished)
        /\ ~has_callback => progress_calls = <<>>

C29_Witness ==
    /\ e_pc = "done"
    /\ has_callback
    /\ Len(progress_calls) >= 2
    /\ n_timelines % max_workers # 0
    /\ Last(progress_calls).completed = n_timelines

\* ------------------------------------------------------------------------
\* C30: the hidden_thought_a and hidden_thought_b nodes change only their own
\* agent's belief state: conversation_history, turn_number, the crisis fields,
\* the collapse-assessment and convergence logs and the other agent's belief
\* state are the same after the node has run as before it.
HiddenThoughtFrame ==
    UNCHANGED <<conversation_history, turn_number, active_crisis,
                crisis_injected_at_turn, collapse_assessments,
                linguistic_convergence_log>>

C30_HiddenThoughtChangesOwnBeliefOnly ==
    [][/\ (Streaming("hidden_thought_a") /\ last_node' = "hidden_thought_a") =>
              HiddenThoughtFrame /\ belief_turns'.b = belief_turns.b
       /\ (Streaming("hidden_thought_b") /\ last_node' = "hidden_thought_b") =>
              HiddenThoughtFrame /\ belief_turns'.a = belief_turns.a]_vars

C30_Witness ==
    /\ phase = "streaming"
    /\ last_node = "hidden_thought_b"
    /\ belief_turns.a >= 2
    /\ belief_turns.b >= 1
    /\ conversation_history # <<>>
    /\ ~IsNone(crisis_injected_at_turn)
    /\ collapse_assessments # <<>>
    /\ linguistic_convergence_log # <<>>

\* ------------------------------------------------------------------------
\* C31: conversation_history, collapse_assessments and
\* linguistic_convergence_log are append-only throughout a timeline: after
\* every step of a node the previous sequence is a prefix of the new one, and
\* linguistic_update appends exactly one record per exchange, tagged with the
\* current turn_number.
IsPrefix(s, t) == Len(s) <= Len(t) /\ SubSeq(t, 1, Len(s)) = s

C31_LogsAppendOnly ==
    [][phase' # "raised" =>
          /\ IsPrefix(conversation_history, conversation_history')
          /\ IsPrefix(collapse_assessments, collapse_assessments')
          /\ IsPrefix(linguistic_convergence_log, linguistic_convergence_log')
          /\ (Streaming("linguistic_update") /\ last_node' = "linguistic_update") =>
                 /\ Len(linguistic_convergence_log') = Len(linguistic_convergence_log) + 1
                 /\ Last(linguistic_convergence_log').turn = turn_number
                 /\ Len(linguistic_convergence_log') = turn_number
          /\ last_node' # "linguistic_update" =>
                 linguistic_convergence_log' = linguistic_convergence_log]_vars

C31_Witness ==
    /\ phase = "streaming"
    /\ last_node = "linguistic_update"
    /\ Len(linguistic_convergence_log) >= 3
    /\ Last(linguistic_convergence_log).turn = turn_number
    /\ collapse_assessments # <<>>
    /\ \E i \in 1..Len(conversation_history) : conversation_history[i].role = "SYSTEM"

\* ------------------------------------------------------------------------
\* C32: whenever the router is evaluated, conversation_history holds exactly
\* turn_number turns of agent A and turn_number turns of agent B, A's k-th
\* turn before B's k-th and B's k-th before A's (k+1)-th, and exactly one
\* SYSTEM turn if and only if crisis_injected_at_turn is set.
SystemTurns == SelectSeq(conversation_history, LAMBDA t : t.role = "SYSTEM")

C32_HistoryShapeAtRouter ==
    last_node = "homeostasis_check" =>
        /\ Len(NonSystemTurns) = 2 * turn_number
        /\ \A j \in 1..Len(NonSystemTurns) :
               NonSystemTurns[j].role = IF j % 2 = 1 THEN "A" ELSE "B"
        /\ Len(SystemTurns) = IF IsNone(crisis_injected_at_turn) THEN 0 ELSE 1
        /\ Len(conversation_history) = Len(NonSystemTurns) + Len(SystemTurns)

C32_Witness ==
    /\ last_node = "homeostasis_check"
    /\ turn_number >= 3
    /\ ~IsNone(crisis_injected_at_turn)
    /\ Len(SystemTurns) = 1
    /\ Len(conversation_history) = 2 * turn_number + 1

\* ------------------------------------------------------------------------
\* C33: each completed hidden_thought(other) call appends exactly one record
\* to the tracker's thought log and increases update_count of the model of
\* that other agent by exactly 1, without changing the model of any other
\* target; over any sequence of calls the thought log and the update counts
\* never shrink.
UpdateCount(models, k) == IF k \in DOMAIN models THEN models[k].update_count ELSE 0

C33_CompletedCallBookkeeping ==
    [][/\ ht_outcome' = "returned" =>
              /\ Len(_thought_log') = Len(_thought_log) + 1
              /\ Last(_thought_log').other_id = ht_other'
              /\ UpdateCount(epistemic_models', ht_other') =
                     UpdateCount(epistemic_models, ht_other') + 1
              /\ \A k \in DOMAIN epistemic_models \ {ht_other'} :
                     epistemic_models'[k] = epistemic_models[k]
              /\ DOMAIN epistemic_models' = DOMAIN epistemic_models \cup {ht_other'}
       /\ IsPrefix(_thought_log, _thought_log')
       /\ \A k \in AgentIds :
              UpdateCount(epistemic_models', k) >= UpdateCount(epistemic_models, k)]_vars

C33_Witness ==
    /\ ht_outcome = "returned"
    /\ Len(_thought_log) = 3
    /\ Cardinality(DOMAIN epistemic_models) = 2
    /\ epistemic_models[ht_other].update_count = 2

\* ------------------------------------------------------------------------
\* C34: after every homeostasis_check final_resilience_score is 1 minus the
\* mean composite risk of the last 5 assessments (0.5 without assessments),
\* plus 0.3 times the latest resilience delta, clamped to [0, 1]: it lies in
\* [0, 1] for every combination of assessments and resilience deltas.
ClampedResilience ==
    LET recent_a == Tail_n(collapse_assessments, 5)
        n == Len(recent_a)
        risks == [i \in 1..n |-> recent_a[i].overall_collapse_risk]
        delta == Last(linguistic_convergence_log).resilience_delta
        \* ten times the unclamped score, over n assessments
        num == IF n = 0 THEN 10 * 5000 + 3 * delta
               ELSE 10 * (Unit * n - SumSeq(risks)) + 3 * delta * n
        den == IF n = 0 THEN 10 ELSE 10 * n
    IN  Max(0, Min(Unit, Round4(num, den)))

C34_ResilienceClamped ==
    last_node = "homeostasis_check" =>
        /\ final_resilience_score = ClampedResilience
        /\ 0 <= final_resilience_score /\ final_resilience_score <= Unit

\* ------------------------------------------------------------------------
\* C35: assess reports turns_until_likely_collapse = ceil((1 - current
\* composite risk) / velocity) whenever velocity, the mean per-turn change of
\* the last five composite risks, exceeds 0.01, and null otherwise; the
\* current assessment's composite risk is the last of those five.
Ceiling(num, den) == -((-num) \div den)

C35_TurnsUntilCollapse ==
    (~IsNone(assessment) /\ _collapse_history # <<>>) =>
        LET last_five == Tail_n(_collapse_history, 5)
            current == Last(last_five)
            rise == current - last_five[1]
            steps == Len(last_five) - 1
        IN  assessment[1].turns_until_likely_collapse =
                IF steps >= 1 /\ rise > 100 * steps
                THEN Some(Ceiling((Unit - current) * steps, rise))
                ELSE None

\* ------------------------------------------------------------------------
\* C36: assess reports is_post_traumatic_growth = true exactly when the
\* assessment history up to and including the current assessment has at least
\* 5 entries, its peak composite risk is > 0.5, the peak is not one of the
\* last two assessments, and the current composite risk is < 0.6 times the
\* peak.
C36_PostTraumaticGrowth ==
    (~IsNone(assessment) /\ _collapse_history # <<>>) =>
        LET n == Len(_collapse_history)
            peak == CHOOSE r \in {_collapse_history[i] : i \in 1..n} :
                        \A i \in 1..n : _collapse_history[i] <= r
            current == _collapse_history[n]
        IN  assessment[1].is_post_traumatic_growth <=>
                /\ n >= 5
                /\ peak > 5000
                /\ \A i \in (n - 1)..n : i >= 1 => _collapse_history[i] # peak
                /\ 10 * current < 6 * peak

\* ------------------------------------------------------------------------
\* C37: every progress payload published on an ensemble's progress channel
\* carries a status from {queued, running, completed, cancelled, failed},
\* however the cancel signal interleaves with the batches.
ProgressStatuses == {"queued", "running", "completed", "cancelled", "failed"}

C37_PublishedStatusKnown ==
    \A i \in 1..Len(published) : published[i].status \in ProgressStatuses

\* ------------------------------------------------------------------------
\* C38: identify_shared_vulnerability is a deterministic function of the two
\* profiles: when several value axes tie for the highest joint score it
\* returns the same axis on every call and in every process, whatever the
\* iteration order of the value-key set.
C38_SameAxisInEveryProcess ==
    \A p, q \in Processes :
        (~IsNone(top_axis[p]) /\ ~IsNone(top_axis[q])) => top_axis[p] = top_axis[q]

\* ------------------------------------------------------------------------
\* C39: after any sequence of hidden_thought calls every entry of
\* epistemic_models has owner_agent_id equal to the tracker's agent_id and
\* target_agent_id equal to its key, and no entry models the owner itself.
C39_EpistemicModelsConsistent ==
    \A k \in DOMAIN epistemic_models :
        /\ epistemic_models[k].owner_agent_id = agent_id
        /\ epistemic_models[k].target_agent_id = k
        /\ k # agent_id

C39_Witness ==
    /\ ht_other = agent_id
    /\ ht_outcome = "ValueError"
    /\ Cardinality(DOMAIN epistemic_models) = 2
    /\ _thought_log # <<>>

====
